-------------------------- MODULE MCLibraryAdapter --------------------------
\* Two adapters over one coordinator: r1 needs one accelerator, r2 both.
EXTENDS LibraryAdapter, TLC

CONSTANTS r1, r2

MCNeeds == (r1 :> {"accelerator-0"}) @@ (r2 :> {"accelerator-0", "accelerator-1"})

MCCapacity == ("accelerator-0" :> 1) @@ ("accelerator-1" :> 2)
=============================================================================
