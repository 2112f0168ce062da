------------------------------- MODULE MCLogger -------------------------------
(* Instances of Logger: a log thread and another one, a handler for every   *)
(* domain and one for a single domain.                                     *)
EXTENDS Logger

CONSTANTS main, worker, sip, media

MCThreads == {main, worker}
MCDomains == {sip, media}
MCMaxMessages == [t \in MCThreads |-> IF t = main THEN 1 ELSE 2]
MCHandlers == <<NoDomain, sip>>

=============================================================================
