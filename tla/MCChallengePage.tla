-------------------------- MODULE MCChallengePage --------------------------
EXTENDS ChallengePage, TLC

CONSTANTS a, b

=============================================================================
