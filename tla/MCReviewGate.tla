---- MODULE MCReviewGate ----
EXTENDS ReviewGate
=============================================================================
