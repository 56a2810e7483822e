------------------------------ MODULE MCKnowledge ------------------------------
(* What the server knows of a branch besides its chunks: the summaries of  *)
(* its subsystems and its code graph.  They share no state, so a run       *)
(* explores either the one or the other.                                   *)
EXTENDS Summaries, CodeGraph, TLC

VARIABLE about      \* "summaries" or "graph"

(* `a' holds a file of its own and one in `b', which a layout may split off. *)
MCFile == { <<"a", "x">>, <<"a", "b", "y">> }
Shallow == [depth |-> 1, overrides |-> <<>>, ignore |-> {}]
Deep == [depth |-> 1, overrides |-> <<"a", "b">> :> 2, ignore |-> {}]
MCLayouts == {Shallow, Deep}

Bare(defs) == [defs |-> defs, names |-> <<>>, modules |-> <<>>, stars |-> <<>>,
               calls |-> {}, bases |-> {}]
Call(by, on, name) == [by |-> by, on |-> on, name |-> name]
Base(by, name) == [by |-> by, name |-> name]
(* `app' calls `run' of `lib' and has a class over its `Base'; `lib' may lose `Base'. *)
FromLib == [Bare({"Sub", "main"}) EXCEPT
    !.names = ("Base" :> <<"lib", "Base">>) @@ ("go" :> <<"lib", "run">>),
    !.calls = {Call("main", "", "go")}, !.bases = {Base("Sub", "Base")}]
MCSourcesOf ==
    ("app" :> { FromLib,
                [FromLib EXCEPT !.bases = {}],
                [FromLib EXCEPT !.names = <<>>, !.stars = <<"lib">>, !.calls = {Call("main", "", "run")}],
                [Bare({"Sub"}) EXCEPT !.bases = {Base("Sub", "Base")}],
                [Bare({"main"}) EXCEPT !.modules = "lib" :> "lib", !.calls = {Call("main", "lib", "run")}] })
 @@ ("lib" :> { Bare({"Base", "run"}), Bare({"run"}), [Bare({"Base", "run"}) EXCEPT !.calls = {Call("run", "", "Base")}] })

(* One of the two is empty and stays so.                                   *)
Unread == /\ skeleton = [f \in File |-> Absent] /\ policy = Fallback
          /\ completed = <<>>
Unbuilt == history = <<<<>>>>

KnowledgeInit ==
    /\ SummaryInit /\ GraphInit
    /\ \/ about = "summaries" /\ Unbuilt
       \/ about = "graph" /\ Unread

KnowledgeNext ==
    \/ about = "summaries" /\ SummaryNext /\ UNCHANGED <<about, graphVars>>
    \/ about = "graph" /\ GraphNext /\ UNCHANGED <<about, summaryVars>>

KnowledgeSpec ==
    KnowledgeInit /\ [][KnowledgeNext]_<<about, summaryVars, graphVars>>

Symmetry == Permutations(Client)

(* Types of both parts; edges of the graph join symbols that are there     *)
(* (SummaryStore, GraphStore.upsert_edges).                                *)
KnowledgeTypeOK == SummaryTypeOK /\ GraphTypeOK
=============================================================================
