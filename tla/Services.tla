------------------------------ MODULE Services ------------------------------
(***************************************************************************)
(* reviewer start, stop and check: the containers of the stores, and what  *)
(* is said when one does not answer (reviewer/compose_lifecycle.py,        *)
(* storage_health.py, and the commands in entrypoints/cli.py).             *)
(*                                                                         *)
(* Docker and the stores are external.  Postgres is only ever asked        *)
(* through a pool, whose timeout says the same of a server that is down    *)
(* and of one whose connections are all taken.                             *)
(***************************************************************************)
EXTENDS UpdateLifecycle

VARIABLES
  services,   \* the containers, and what keeps them from answering
  chk         \* the registers of a check at each terminal

containers == <<services, chk>>

NoCheck == [failed |-> FALSE, remedy |-> FALSE]

ServicesInit ==
  /\ services = case.services
  /\ chk = [t \in Terminal |-> NoCheck]

ServicesOK ==
  /\ services.postgres \in {"up", "busy", "down"}
  /\ services.graph \in {"up", "down"}
  /\ services.web \in {"up", "down"}
  /\ services.docker \in {"ok", "no_daemon", "missing"}
  /\ chk \in [Terminal -> [failed : BOOLEAN, remedy : BOOLEAN]]

---------------------------------------------------------------------------
(* start and stop. *)

\* What a call of docker compose comes to, before it does anything.
_run_compose ==
  CASE compose.file = None -> "compose_missing"
    [] compose.file # None /\ services.docker = "missing" -> "docker_missing"
    [] compose.file # None /\ services.docker = "no_daemon" -> "daemon_unavailable"
    [] OTHER -> "ok"

\* Every other answer than "ok" is explained, and is an error.
Composes(t, run, after) ==
  /\ Starts(t, run)
  /\ \/ /\ _run_compose = "ok"
        /\ services' = after
        /\ Ends(t, "ok")
     \/ /\ _run_compose # "ok"
        /\ Ends(t, "error") /\ UNCHANGED services
  /\ UNCHANGED <<clients, updates, chk>>

start_services(t) ==
  Composes(t, "start", [services EXCEPT
    !.postgres = IF @ = "down" THEN "up" ELSE @, !.graph = "up"])

\* The profile of the web page is named, or it would stay up.
stop_services(t) ==
  Composes(t, "stop", [services EXCEPT
    !.postgres = "down", !.graph = "down", !.web = "down"])

---------------------------------------------------------------------------
(* What went wrong with a store. *)

is_storage_unavailable(exc) ==
  exc \in {"pool_timeout", "refused", "auth_failed", "missing_database",
           "graph_down"}

\* The container can only help a store of this machine.
storage_remedy == case.local

\* A failure with a name of its own means that the server answered.
classify_storage_failure(exc) ==
  IF ~is_storage_unavailable(exc) \/ exc \in {"auth_failed", "missing_database"}
  THEN FALSE ELSE storage_remedy

\* A direct connection past the pool.
_probe_postgres ==
  IF services.postgres = "down" THEN "refused"
  ELSE IF case.postgres_answers = "ok" THEN "none" ELSE case.postgres_answers

\* The pool is really exhausted if the probe gets through.
_classify_pool_timeout ==
  IF _probe_postgres = "none" THEN FALSE
  ELSE classify_storage_failure(_probe_postgres)

---------------------------------------------------------------------------
(* check. *)

\* The key first, then Postgres.
check(t) ==
  /\ Starts(t, "check")
  /\ IF services.postgres # "up"
     THEN /\ Go(t, "check_probe")
          /\ chk' = [chk EXCEPT ![t].failed = TRUE]
     ELSE /\ Go(t, "check_graph")
          /\ chk' = [chk EXCEPT ![t] =
               [failed |-> case.postgres_answers # "ok",
                remedy |-> classify_storage_failure(case.postgres_answers)]]
  /\ UNCHANGED <<clients, updates, services>>

check_probe(t) ==
  /\ Runs(t, "check_probe")
  /\ chk' = [chk EXCEPT ![t].remedy = _classify_pool_timeout]
  /\ Go(t, "check_graph")
  /\ UNCHANGED <<clients, updates, services>>

check_graph(t) ==
  /\ Runs(t, "check_graph")
  /\ LET exc == IF services.graph = "down" THEN "graph_down" ELSE "none" IN
     chk' = [chk EXCEPT ![t] =
       [failed |-> @.failed \/ exc # "none",
        remedy |-> @.remedy \/ classify_storage_failure(exc)]]
  /\ Go(t, "check_providers")
  /\ UNCHANGED <<clients, updates, services>>

\* The hosts of the code and the boards: any that refuses fails the check.
\* Stale skills are told, and do not.
check_providers(t) ==
  /\ Runs(t, "check_providers")
  /\ \E refused \in BOOLEAN :
       Ends(t, IF chk[t].failed \/ refused THEN "error" ELSE "ok")
  /\ chk' = [chk EXCEPT ![t] = NoCheck]
  /\ UNCHANGED <<clients, updates, services>>

ServiceStep(t) ==
  \/ start_services(t)
  \/ stop_services(t)
  \/ check(t)
  \/ check_probe(t)
  \/ check_graph(t)
  \/ check_providers(t)

ServicesKilled(t) == chk' = [chk EXCEPT ![t] = NoCheck] /\ UNCHANGED services

\* Other programs take the connections, and give them back.
Crowd ==
  /\ Happens("crowd") /\ services.postgres # "down"
  /\ services' = [services EXCEPT !.postgres = IF @ = "up" THEN "busy" ELSE "up"]
  /\ UNCHANGED <<clients, updates, chk>>

---------------------------------------------------------------------------
(* reviewer start is advised only where it helps: a store of this machine  *)
(* is down, or was until somebody started it.  A taken pool, a wrong       *)
(* password or a server elsewhere is not healed by it.                     *)
AdviceMeansDown ==
  \A t \in Terminal :
    chk[t].remedy =>
      /\ case.local
      /\ \/ "down" \in {services.postgres, services.graph}
         \/ \E u \in Terminal : \E i \in 1..Len(case.todo[u]) - Len(todo[u]) :
              case.todo[u][i].run = "start"
=============================================================================
