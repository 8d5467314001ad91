------------------------------ MODULE PageStore ------------------------------
(***************************************************************************)
(* What a buffer pool promises its clients: a store of pages in which a    *)
(* client sees what was last written to a page, whether or not the page    *)
(* left memory in between, as long as no more than Capacity pages are in   *)
(* use at a time.                                                          *)
(***************************************************************************)
EXTENDS Naturals, FiniteSets

CONSTANTS Threads,  \* the clients
          PageIds,  \* the ids of the pages
          Data,     \* what a page can hold
          Zero,     \* what a new page holds
          Absent,   \* the content of a page that does not exist
          Capacity  \* how many pages can be in use

VARIABLES content,  \* content[p]: what page p holds
          using     \* <<t, p>> \in using: client t has page p in use

vars == <<content, using>>

Init == /\ content = [p \in PageIds |-> Absent]
        /\ using = {}

Exists(p) == content[p] # Absent

Use(t, p) == /\ using' = using \union {<<t, p>>}
             /\ Cardinality({u[2] : u \in using'}) <= Capacity

New(t, p) == /\ ~Exists(p)
             /\ content' = [content EXCEPT ![p] = Zero]
             /\ Use(t, p)

Open(t, p) == /\ Exists(p)
              /\ Use(t, p)
              /\ UNCHANGED content

Write(t, p, v) == /\ <<t, p>> \in using
                  /\ content' = [content EXCEPT ![p] = v]
                  /\ UNCHANGED using

Close(t, p) == /\ using' = using \ {<<t, p>>}
               /\ UNCHANGED content

Next == \E t \in Threads, p \in PageIds : \/ New(t, p)
                                          \/ Open(t, p)
                                          \/ \E v \in Data : Write(t, p, v)
                                          \/ Close(t, p)

Spec == Init /\ [][Next]_vars
=============================================================================
