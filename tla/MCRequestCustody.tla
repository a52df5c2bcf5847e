-------------------------- MODULE MCRequestCustody --------------------------
\* Small instances of RequestCustody for TLC.
EXTENDS RequestCustody

\* All requests in one generation, and each request in its own.
Together == [r \in Request |-> CHOOSE g \in Generation : TRUE]
Apart ==
    CHOOSE f \in [Request -> Generation] : \A r, s \in Request : r # s => f[r] # f[s]
=============================================================================
