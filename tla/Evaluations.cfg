SPECIFICATION EvaluationsSpec
CONSTANTS
    Service = {s1, s2}
    Stream = {"evaluation-suite-c1", "evaluation-suite-g1", "review-b1",
              "evaluation-results", "recommendation-policies", "recommendations",
              "user-decisions"}
    MaxCalls = 2
    Candidates <- MCCandidates
    SuiteRequest <- MCSuiteRequest
    Cases <- MCCases
    ReviewRequest <- MCReviewRequest
    SoloRequest <- MCSoloRequest
    Judgments <- MCJudgments
    ResultRequest <- MCResultRequest
    PolicyRequest <- MCPolicyRequest
    RecommendationRequest <- MCRecommendationRequest
    DecisionRequest <- MCDecisionRequest
    Stores <- MCStores
    Trial <- MCTrial
SYMMETRY MCSymmetry
INVARIANTS
    OneSuccessor
    DecisionsReadable
    SelectedUndominated
PROPERTY SealedUnseen
CHECK_DEADLOCK FALSE
