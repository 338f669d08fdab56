------------------------ MODULE MCCandidateWorkspace ------------------------
EXTENDS CandidateWorkspace
CONSTANTS p, q
=============================================================================
