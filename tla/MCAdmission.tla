----------------------------- MODULE MCAdmission ------------------------------
\* The interceptors and the quotas, instantiated for TLC.
EXTENDS Admission
===============================================================================
