\* Five messages, two steps, two bundles.
SPECIFICATION ControllerSpec
CONSTANTS
    Bundle = {1, 2}
    MaxStep = 2
    MaxSequence = 5
INVARIANTS RebuiltFromLedger TerminalJustified CancellationNotForgotten
