---------------------------- MODULE MCSupervisor ----------------------------
\* Instances of the host supervisor for TLC.
EXTENDS Supervisor

CONSTANT Second  \* another plugin than the one whose calls are explored

\* Processes are interchangeable: a start takes the first that is free.
HostsInOrder ==
  \A h \in Host :
    host[h] = Dead /\ host'[h] # Dead => h = CHOOSE g \in Host : host[g] = Dead

\* The hosts of the second plugin are started by retries, and stopped.
SecondIsRetried ==
  \A c \in Call : call[c].pc = "idle" /\ call'[c].key = Second => call'[c].force

Explored == HostsInOrder /\ SecondIsRetried

=============================================================================
