-------------------------- MODULE GraphStoreProofs --------------------------
(***************************************************************************)
(* Proofs about GraphStore for every set of vertices, edges, names and     *)
(* writers.  What holds under any overlap follows from what each writer    *)
(* may still do to the vertices it knows.  For writers that do not overlap *)
(* it is proved that the graph has no cycle and no two edges that say the  *)
(* same, from what their checks have established by the time they write,   *)
(* and what a delete takes and leaves, from what is on the stack of a walk.*)
(***************************************************************************)
EXTENDS GraphStore, FiniteSetTheorems, SequenceTheorems, TLAPS

Born(v) == status[v] \in {"there", "gone"}

StoreOK ==
    /\ status \in [Vertex -> {"unborn", "drawn", "there", "gone"}]
    /\ details \in SUBSET Vertex
    /\ edges \in SUBSET Edge
    /\ link \in [Edge -> Link \union {NoLink}]
    /\ \A e \in edges : link[e] \in Link
    /\ faults \in 0 .. MaxFaults

\* What a writer in state s has in its hands.
Sound(s) ==
    /\ s.pc \in {"vertex", "details", "undo", "upsert", "edit"} => s.vertex \in Vertex
    /\ s.pc = "vertex" => status[s.vertex] = "drawn"
    /\ s.pc \in {"details", "undo"} => Born(s.vertex)
    /\ s.pc \in {"cycle", "duplicate", "single", "edge"} => s.link \in Link
    /\ s.pc \in {"count", "remove"} => s.edge \in Edge
    /\ s.pc = "walk" => s.stack # <<>>
    /\ \A i \in 1 .. Len(s.stack) : Born(s.stack[i].vertex)

ProcOK ==
    /\ proc \in [Writer -> ProcState]
    /\ \A p \in Writer : Sound(proc[p])

\* The database draws an id once.
Distinct ==
    \A p, q \in Writer :
       proc[p].pc = "vertex" /\ proc[q].pc = "vertex" /\ proc[p].vertex = proc[q].vertex
       => p = q

IInv == StoreOK /\ ProcOK /\ Distinct

\* Vertices go from unborn to gone and never back.
Onward ==
    \A v \in Vertex : /\ Born(v) => Born(v)'
                      /\ status[v] = "gone" => status'[v] = "gone"

\* Responsible() of a writer in state s.
Answers(s, v) ==
    \/ s.pc \in {"details", "undo"} /\ s.vertex = v
    \/ s.pc = "walk" /\ s.stack[Len(s.stack)].stage = "last"
       /\ s.stack[Len(s.stack)].vertex = v

Bare == There \ details

\* A step strands no vertex, unless it is a fault, which strands one at most.
Stranding ==
    \/ faults' = faults /\ Stranded' \subseteq Stranded
    \/ faults' = faults + 1 /\ \E v : Stranded' \subseteq Stranded \union {v}

Kept == IInv' /\ Onward /\ Stranding

-----------------------------------------------------------------------------
(* Stacks.                                                                 *)

\* The innermost call, and the stack with another one in its place.
LEMMA TopFacts ==
    ASSUME NEW s \in Seq(Frame), s # <<>>
    PROVE  /\ Len(s) \in Nat \ {0}
           /\ s[Len(s)] \in Frame
           /\ \A f \in Frame :
                /\ [s EXCEPT ![Len(s)] = f] \in Seq(Frame)
                /\ Len([s EXCEPT ![Len(s)] = f]) = Len(s)
                /\ [s EXCEPT ![Len(s)] = f] # <<>>
                /\ [s EXCEPT ![Len(s)] = f][Len(s)] = f
                /\ \A i \in 1 .. Len(s) : i # Len(s) => [s EXCEPT ![Len(s)] = f][i] = s[i]
  <1>1. Len(s) \in Nat /\ Len(s) # 0 /\ Len(s) \in 1 .. Len(s)
    BY EmptySeq, LenProperties
  <1>2. s[Len(s)] \in Frame
    BY <1>1, ElementOfSeq
  <1>3. ASSUME NEW f \in Frame
        PROVE  /\ [s EXCEPT ![Len(s)] = f] \in Seq(Frame)
               /\ Len([s EXCEPT ![Len(s)] = f]) = Len(s)
    BY <1>1, ExceptSeq
  <1>4. ASSUME NEW f \in Frame
        PROVE  /\ [s EXCEPT ![Len(s)] = f] # <<>>
               /\ [s EXCEPT ![Len(s)] = f][Len(s)] = f
               /\ \A i \in 1 .. Len(s) : i # Len(s) => [s EXCEPT ![Len(s)] = f][i] = s[i]
    <2>1. DOMAIN s = 1 .. Len(s)
      BY LenProperties
    <2>2. [s EXCEPT ![Len(s)] = f] # <<>>
      BY <1>1, <1>3, EmptySeq
    <2>3. QED
      BY <1>1, <2>1, <2>2
  <1>5. QED
    BY <1>1, <1>2, <1>3, <1>4


\* A call of deleteVertex() on top of the stack.
LEMMA PushFacts ==
    ASSUME NEW s \in Seq(Frame), NEW f \in Frame
    PROVE  /\ Append(s, f) \in Seq(Frame) /\ Append(s, f) # <<>>
           /\ Len(s) \in Nat /\ Len(Append(s, f)) = Len(s) + 1
           /\ \A i \in 1 .. Len(s) : Append(s, f)[i] = s[i]
           /\ Append(s, f)[Len(s) + 1] = f
  BY AppendProperties, LenProperties

\* The stack without the innermost call.
LEMMA FrontFacts ==
    ASSUME NEW s \in Seq(Frame), s # <<>>
    PROVE  /\ Front(s) \in Seq(Frame)
           /\ Len(s) \in Nat /\ Len(Front(s)) = Len(s) - 1
           /\ \A i \in 1 .. Len(s) - 1 : Front(s)[i] = s[i]
  <1>1. Len(s) \in Nat \ {0}
    BY TopFacts
  <1>2. PICK n \in Nat : n = Len(s) - 1
    BY <1>1
  <1>3. \A i \in 1 .. n : s[i] \in Frame
    BY <1>1, <1>2, ElementOfSeq
  <1>4. /\ SubSeq(s, 1, n) \in Seq(Frame)
        /\ Len(SubSeq(s, 1, n)) = n
        /\ \A i \in 1 .. n : SubSeq(s, 1, n)[i] = s[i]
    <2>1. /\ SubSeq(s, 1, n) \in Seq(Frame)
          /\ Len(SubSeq(s, 1, n)) = IF 1 <= n THEN n - 1 + 1 ELSE 0
          /\ \A i \in 1 .. n - 1 + 1 : SubSeq(s, 1, n)[i] = s[1 + i - 1]
      BY <1>3, SubSeqProperties, 1 \in Int, n \in Int
    <2>2. n - 1 + 1 = n /\ (1 <= n \/ n = 0) /\ \A i \in 1 .. n : 1 + i - 1 = i
      OBVIOUS
    <2>3. QED
      BY <2>1, <2>2, Zenon
  <1>5. Front(s) = SubSeq(s, 1, n)
    BY <1>2 DEF Front
  <1>6. QED
    BY <1>1, <1>2, <1>4, <1>5

-----------------------------------------------------------------------------
(* Steps.                                                                  *)

\* What the invariant says of one writer.
LEMMA ProcFacts ==
    ASSUME IInv, NEW p \in Writer
    PROVE  proc[p] \in ProcState /\ Sound(proc[p]) /\ StoreOK
  BY DEF IInv, ProcOK

\* Who answers for a vertex, seen from the state of the writer.
LEMMA AnswersIsResponsible ==
    ASSUME NEW p, NEW v
    PROVE  Responsible(p, v) <=> Answers(proc[p], v)
  BY DEF Responsible, Answers, Walking, Top

\* A step of writer p that leaves p with s, and every bare vertex either in
\* its hands or as bare as before.
LEMMA StrandingStep ==
    ASSUME proc \in [Writer -> ProcState], NEW p \in Writer, NEW s, Goto(p, s),
           faults' = faults,
           \A v \in Bare' : Answers(s, v) \/ (v \in Bare /\ ~Answers(proc[p], v))
    PROVE  Stranding
  <1>1. proc'[p] = s /\ \A q \in Writer : q # p => proc'[q] = proc[q]
    BY DEF Goto
  <1>2. ASSUME NEW v \in Stranded' PROVE v \in Stranded
    <2>1. v \in Bare' /\ \A q \in Writer : ~Answers(proc'[q], v)
      BY AnswersIsResponsible DEF Stranded, Bare, Responsible, Answers, Walking, Top
    <2>2. v \in Bare /\ ~Answers(proc[p], v)
      BY <1>1, <2>1
    <2>3. \A q \in Writer : ~Answers(proc[q], v)
      BY <1>1, <2>1, <2>2
    <2>4. QED
      BY <2>2, <2>3, AnswersIsResponsible DEF Stranded, Bare
  <1>3. QED
    BY <1>2 DEF Stranding

\* The same step, and the invariant.
LEMMA StepKeeps ==
    ASSUME IInv, NEW p \in Writer, NEW s \in ProcState, Goto(p, s),
           StoreOK', Onward, Stranding, Sound(s)',
           s.pc = "vertex" => status[s.vertex] = "unborn",
           \A v \in Vertex : status[v] = "drawn" =>
              \/ status'[v] = "drawn"
              \/ proc[p].pc = "vertex" /\ proc[p].vertex = v
    PROVE  Kept
  <1>1. proc' \in [Writer -> ProcState]
    BY DEF IInv, ProcOK, Goto
  <1>2. proc'[p] = s /\ \A q \in Writer : q # p => proc'[q] = proc[q]
    BY DEF IInv, ProcOK, Goto
  <1>3. ASSUME NEW q \in Writer PROVE Sound(proc[q])'
    <2>1. CASE q = p
      BY <1>2, <2>1 DEF Sound, Born
    <2>2. CASE q # p
      <3>1. PICK t \in ProcState : t = proc[q] /\ Sound(t)
        BY ProcFacts
      <3>2. t.pc = "vertex" => status'[t.vertex] = "drawn"
        BY <2>2, <3>1 DEF Sound, IInv, Distinct
      <3>3. t.pc \in {"details", "undo"} => Born(t.vertex)'
        BY <3>1 DEF Sound, Onward
      <3>4. ASSUME NEW i \in 1 .. Len(t.stack) PROVE Born(t.stack[i].vertex)'
        <4>1. t.stack \in Seq(Frame)
          BY <3>1 DEF ProcState
        <4>2. t.stack[i] \in Frame
          BY <4>1, ElementOfSeq
        <4>3. QED
          BY <3>1, <4>2 DEF Sound, Onward, Frame
      <3>5. Sound(t)'
        BY <3>1, <3>2, <3>3, <3>4 DEF Sound
      <3>6. QED
        BY <1>2, <2>2, <3>1, <3>5 DEF Sound, Born
    <2>3. QED
      BY <2>1, <2>2
  <1>4. Distinct'
    <2>1. ASSUME NEW q \in Writer, q # p, proc[q].pc = "vertex", s.pc = "vertex"
          PROVE  proc[q].vertex # s.vertex
      BY <2>1, ProcFacts DEF Sound
    <2>2. QED
      BY <1>2, <2>1 DEF IInv, Distinct
  <1>5. QED
    BY <1>1, <1>3, <1>4 DEF Kept, IInv, ProcOK

\* Steps by a writer that answers for no vertex and changes edges at most.
LEMMA EdgesKeep ==
    ASSUME IInv, NEW p \in Writer, NEW s \in ProcState, Goto(p, s),
           StoreOK', UNCHANGED <<status, details, faults>>,
           Sound(s), s.pc # "vertex", \A v : ~Answers(proc[p], v)
    PROVE  Kept
  <1>1. Onward /\ Sound(s)'
    BY DEF Onward, Born, Sound
  <1>2. Bare' = Bare
    BY DEF Bare, There
  <1>3. Stranding
    BY <1>2, StrandingStep DEF IInv, ProcOK
  <1>4. QED
    BY <1>1, <1>3, StepKeeps

\* The same, when nothing is written at all.
LEMMA ReadKeeps ==
    ASSUME IInv, NEW p \in Writer, NEW s \in ProcState, Goto(p, s), StoreUntouched,
           Sound(s), s.pc # "vertex", \A v : ~Answers(proc[p], v)
    PROVE  Kept
  <1>1. StoreOK'
    BY DEF IInv, StoreOK, StoreUntouched
  <1>2. QED
    BY <1>1, EdgesKeep DEF StoreUntouched

\* A writer answers for one vertex at most: a fault strands no more.
LEMMA FaultKeeps ==
    ASSUME IInv, NEW p \in Writer, NEW s \in ProcState, Goto(p, s),
           UNCHANGED <<status, details, edges, link>>,
           faults < MaxFaults, faults' = faults + 1,
           Sound(s), s.pc # "vertex"
    PROVE  Kept
  <1>1. StoreOK' /\ Onward /\ Sound(s)'
    BY MaxFaultsInNat DEF IInv, StoreOK, Onward, Born, Sound
  <1>2. PICK v : \A u : Answers(proc[p], u) => u = v
    <2>1. CASE proc[p].pc \in {"details", "undo"}
      BY <2>1 DEF Answers
    <2>2. CASE proc[p].pc \notin {"details", "undo"}
      BY <2>2 DEF Answers
    <2>3. QED
      BY <2>1, <2>2
  <1>3. \A q \in Writer : q # p => proc'[q] = proc[q]
    BY DEF IInv, ProcOK, Goto
  <1>4. ASSUME NEW u \in Stranded', u # v PROVE u \in Stranded
    <2>1. u \in There \ details /\ \A q \in Writer : ~Answers(proc'[q], u)
      BY AnswersIsResponsible DEF Stranded, There, Responsible, Answers, Walking, Top
    <2>2. \A q \in Writer : ~Answers(proc[q], u)
      BY <1>2, <1>3, <1>4, <2>1
    <2>3. QED
      BY <2>1, <2>2, AnswersIsResponsible DEF Stranded
  <1>5. Stranding
    BY <1>4 DEF Stranding
  <1>6. QED
    BY <1>1, <1>5, StepKeeps

\* A writer at rest has nothing in its hands.
LEMMA IdleIsFine ==
    /\ Idle \in ProcState
    /\ Sound(Idle)
    /\ Idle.pc = "idle" /\ Idle.stack = <<>>
  <1>1. <<>> \in Seq(Frame) /\ Len(<<>>) = 0
    BY EmptySeq
  <1>2. Idle \in ProcState
    BY <1>1 DEF Idle, ProcState, PC, NoLink
  <1>3. Idle.pc = "idle" /\ Idle.stack = <<>>
    BY DEF Idle
  <1>4. QED
    BY <1>1, <1>2, <1>3 DEF Sound

\* Away from the steps that leave a vertex bare, a writer answers for none.
LEMMA AnswersForNone ==
    ASSUME NEW s,
           \/ s.pc \notin {"details", "undo", "walk"}
           \/ s.pc = "walk" /\ s.stack[Len(s.stack)].stage # "last"
    PROVE  \A v : ~Answers(s, v)
  BY DEF Answers

\* A writer between two checks of addEdge(), or of no consequence.
LEMMA MovesOn ==
    ASSUME NEW s \in ProcState, NEW c \in PC
    PROVE  /\ [s EXCEPT !.pc = c] \in ProcState
           /\ [s EXCEPT !.pc = c].pc = c
           /\ [s EXCEPT !.pc = c].vertex = s.vertex
           /\ [s EXCEPT !.pc = c].link = s.link
           /\ [s EXCEPT !.pc = c].edge = s.edge
           /\ [s EXCEPT !.pc = c].stack = s.stack
  BY DEF ProcState

\* The vertices of a walk stay known.
LEMMA StackStays ==
    ASSUME NEW s \in ProcState, Sound(s), Onward
    PROVE  \A i \in 1 .. Len(s.stack) : Born(s.stack[i].vertex)'
  <1>1. \A i \in 1 .. Len(s.stack) : s.stack[i] \in Frame
    BY ElementOfSeq DEF ProcState
  <1>2. QED
    BY <1>1 DEF Sound, Onward, Frame

-----------------------------------------------------------------------------
(* addVertex() and editVertex().                                           *)

LEMMA BeginAddVertexKeeps ==
    ASSUME IInv, NEW p \in Writer, NEW v \in Vertex, proc[p].pc = "idle",
           BeginAddVertex(p, v)
    PROVE  Kept
  <1>1. PICK s : s = [Idle EXCEPT !.pc = "vertex", !.vertex = v]
    OBVIOUS
  <1>2. s \in ProcState /\ s.pc = "vertex" /\ s.vertex = v /\ s.stack = <<>>
    BY <1>1, IdleIsFine DEF ProcState, PC
  <1>3. Goto(p, s) /\ status[v] = "unborn" /\ status' = [status EXCEPT ![v] = "drawn"]
        /\ UNCHANGED <<details, edges, link, faults>>
    BY <1>1 DEF BeginAddVertex
  <1>4. StoreOK' /\ Onward
    BY <1>3 DEF IInv, StoreOK, Onward, Born
  <1>5. Sound(s)'
    <2>1. Len(s.stack) = 0
      BY <1>2, EmptySeq
    <2>2. status'[v] = "drawn"
      BY <1>3 DEF IInv, StoreOK
    <2>3. QED
      BY <1>2, <2>1, <2>2 DEF Sound
  <1>6. Bare' \subseteq Bare /\ \A u : ~Answers(proc[p], u)
    BY <1>3 DEF Bare, There, IInv, StoreOK, Answers
  <1>7. Stranding
    BY <1>3, <1>6, StrandingStep DEF IInv, ProcOK
  <1>8. QED
    BY <1>2, <1>3, <1>4, <1>5, <1>7, StepKeeps DEF IInv, StoreOK

LEMMA InsertVertexKeeps ==
    ASSUME IInv, NEW p \in Writer, InsertVertex(p)
    PROVE  Kept
  <1>1. proc[p] \in ProcState /\ Sound(proc[p]) /\ proc[p].pc = "vertex"
    BY ProcFacts DEF InsertVertex
  <1>2. PICK v \in Vertex : v = proc[p].vertex /\ status[v] = "drawn"
    BY <1>1 DEF Sound
  <1>3. PICK s : s = At(p, "details")
    OBVIOUS
  <1>4. s \in ProcState /\ s.pc = "details" /\ s.vertex = v /\ s.stack = proc[p].stack
    BY <1>1, <1>2, <1>3, MovesOn DEF At, PC
  <1>5. Goto(p, s) /\ status' = [status EXCEPT ![v] = "there"]
        /\ UNCHANGED <<details, edges, link, faults>>
    BY <1>2, <1>3 DEF InsertVertex
  <1>6. StoreOK' /\ Onward /\ status'[v] = "there"
    BY <1>2, <1>5 DEF IInv, StoreOK, Onward, Born
  <1>7. \A i \in 1 .. Len(s.stack) : Born(s.stack[i].vertex)'
    BY <1>1, <1>4, <1>6, StackStays
  <1>8. Sound(s)'
    BY <1>4, <1>6, <1>7 DEF Sound, Born
  <1>9. \A u \in Bare' : Answers(s, u) \/ (u \in Bare /\ ~Answers(proc[p], u))
    BY <1>1, <1>4, <1>5 DEF Bare, There, IInv, StoreOK, Answers
  <1>10. Stranding
    BY <1>5, <1>9, StrandingStep DEF IInv, ProcOK
  <1>11. QED
    BY <1>1, <1>2, <1>4, <1>5, <1>6, <1>8, <1>10, StepKeeps DEF IInv, StoreOK

LEMMA InsertDetailsKeeps ==
    ASSUME IInv, NEW p \in Writer, InsertDetails(p)
    PROVE  Kept
  <1>1. proc[p] \in ProcState /\ Sound(proc[p]) /\ proc[p].pc = "details"
        /\ StoreOK /\ proc[p].vertex \in Vertex
    BY ProcFacts DEF InsertDetails, Sound
  <1>2. UNCHANGED <<status, edges, link, faults>>
    BY DEF InsertDetails
  <1>3. CASE details' = details \union {proc[p].vertex} /\ Goto(p, Idle)
    <2>1. StoreOK' /\ Onward /\ Sound(Idle)'
      BY <1>1, <1>2, <1>3, IdleIsFine DEF StoreOK, Onward, Born, Sound
    <2>2. \A u \in Bare' : u \in Bare /\ ~Answers(proc[p], u)
      BY <1>1, <1>2, <1>3 DEF Bare, There, Answers
    <2>3. Stranding
      BY <1>2, <1>3, <2>2, StrandingStep DEF IInv, ProcOK
    <2>4. QED
      BY <1>2, <1>3, <2>1, <2>3, IdleIsFine, StepKeeps
  <1>4. CASE details' = details /\ Goto(p, At(p, "undo"))
    <2>1. PICK s : s = At(p, "undo")
      OBVIOUS
    <2>2. s \in ProcState /\ s.pc = "undo" /\ s.vertex = proc[p].vertex
          /\ s.stack = proc[p].stack
      BY <1>1, <2>1, MovesOn DEF At, PC
    <2>3. StoreOK' /\ Onward
      BY <1>1, <1>2, <1>4 DEF StoreOK, Onward, Born
    <2>4. Sound(s)'
      BY <1>1, <1>2, <2>2, <2>3, StackStays DEF Sound, Born
    <2>5. \A u : Answers(proc[p], u) => Answers(s, u)
      BY <1>1, <2>2 DEF Answers
    <2>6. \A u \in Bare' : Answers(s, u) \/ (u \in Bare /\ ~Answers(proc[p], u))
      BY <1>2, <1>4, <2>5 DEF Bare, There
    <2>7. Stranding
      BY <1>2, <1>4, <2>1, <2>6, StrandingStep DEF IInv, ProcOK
    <2>8. QED
      BY <1>2, <1>4, <2>1, <2>2, <2>3, <2>4, <2>7, StepKeeps
  <1>5. QED
    BY <1>3, <1>4 DEF InsertDetails

\* A vertex that is removed is bare no more.
LEMMA RemovedVertex ==
    ASSUME StoreOK, NEW v \in Vertex, Born(v), status' = Removed(v),
           UNCHANGED <<details, edges, link, faults>>
    PROVE  /\ StoreOK' /\ Onward
           /\ Bare' = Bare \ {v}
           /\ \A u \in Vertex : status[u] = "drawn" => status'[u] = "drawn"
  BY DEF StoreOK, Onward, Born, Removed, Bare, There

LEMMA UndoVertexKeeps ==
    ASSUME IInv, NEW p \in Writer, UndoVertex(p)
    PROVE  Kept
  <1>1. /\ proc[p].pc = "undo" /\ proc[p].vertex \in Vertex /\ Born(proc[p].vertex)
        /\ StoreOK /\ Goto(p, Idle) /\ status' = Removed(proc[p].vertex)
        /\ UNCHANGED <<details, edges, link, faults>>
    BY ProcFacts DEF UndoVertex, Sound
  <1>2. /\ StoreOK' /\ Onward /\ Bare' = Bare \ {proc[p].vertex}
        /\ \A u \in Vertex : status[u] = "drawn" => status'[u] = "drawn"
    BY <1>1, RemovedVertex
  <1>3. Sound(Idle)'
    BY IdleIsFine DEF Sound, Born
  <1>4. \A u \in Bare' : u \in Bare /\ ~Answers(proc[p], u)
    BY <1>1, <1>2 DEF Answers
  <1>5. Stranding
    BY <1>1, <1>4, StrandingStep DEF IInv, ProcOK
  <1>6. QED
    BY <1>1, <1>2, <1>3, <1>5, IdleIsFine, StepKeeps

LEMMA BeginEditVertexKeeps ==
    ASSUME IInv, NEW p \in Writer, NEW v \in Vertex, proc[p].pc = "idle",
           BeginEditVertex(p, v)
    PROVE  Kept
  <1>1. PICK s : s = [Idle EXCEPT !.pc = "upsert", !.vertex = v]
    OBVIOUS
  <1>2. s \in ProcState /\ s.pc = "upsert" /\ s.vertex = v /\ s.stack = <<>>
    BY <1>1, IdleIsFine DEF ProcState, PC
  <1>3. Sound(s)
    BY <1>2, EmptySeq DEF Sound
  <1>4. Goto(p, s) /\ StoreUntouched
    BY <1>1 DEF BeginEditVertex
  <1>5. QED
    BY <1>2, <1>3, <1>4, AnswersForNone, ReadKeeps

LEMMA UpsertDetailsKeeps ==
    ASSUME IInv, NEW p \in Writer, UpsertDetails(p)
    PROVE  Kept
  <1>1. proc[p] \in ProcState /\ Sound(proc[p]) /\ proc[p].pc = "upsert"
        /\ StoreOK /\ proc[p].vertex \in Vertex
    BY ProcFacts DEF UpsertDetails, Sound
  <1>2. PICK s : s = At(p, "edit")
    OBVIOUS
  <1>3. s \in ProcState /\ s.pc = "edit" /\ s.vertex = proc[p].vertex
        /\ s.stack = proc[p].stack
    BY <1>1, <1>2, MovesOn DEF At, PC
  <1>4. /\ Goto(p, s) /\ details' = details \union {proc[p].vertex}
        /\ UNCHANGED <<status, edges, link, faults>>
    BY <1>2 DEF UpsertDetails
  <1>5. StoreOK' /\ Onward
    BY <1>1, <1>4 DEF StoreOK, Onward, Born
  <1>6. Sound(s)'
    BY <1>1, <1>3, <1>5, StackStays DEF Sound
  <1>7. \A u \in Bare' : u \in Bare /\ ~Answers(proc[p], u)
    BY <1>1, <1>4 DEF Bare, There, Answers
  <1>8. Stranding
    BY <1>4, <1>7, StrandingStep DEF IInv, ProcOK
  <1>9. QED
    BY <1>3, <1>4, <1>5, <1>6, <1>8, StepKeeps

LEMMA EditVertexKeeps ==
    ASSUME IInv, NEW p \in Writer, EditVertex(p)
    PROVE  Kept
  <1>1. proc[p].pc = "edit" /\ Goto(p, Idle) /\ StoreUntouched
    BY DEF EditVertex, Edited, StoreUntouched
  <1>2. QED
    BY <1>1, IdleIsFine, AnswersForNone, ReadKeeps

-----------------------------------------------------------------------------
(* addEdge().                                                              *)

LEMMA BeginAddEdgeKeeps ==
    ASSUME IInv, NEW p \in Writer, proc[p].pc = "idle",
           NEW v \in Vertex, NEW w \in Vertex, NEW n \in Name, BeginAddEdge(p, v, w, n)
    PROVE  Kept
  <1>1. PICK l : l = [source |-> v, target |-> w, name |-> n]
    OBVIOUS
  <1>2. PICK s : s = [Idle EXCEPT !.pc = "cycle", !.link = l]
    OBVIOUS
  <1>3. l \in Link
    BY <1>1 DEF Link
  <1>4. s \in ProcState /\ s.pc = "cycle" /\ s.link = l /\ s.stack = <<>>
    BY <1>2, <1>3, IdleIsFine DEF ProcState, PC
  <1>5. Sound(s)
    BY <1>3, <1>4, EmptySeq DEF Sound
  <1>6. Goto(p, s) /\ StoreUntouched
    BY <1>1, <1>2 DEF BeginAddEdge
  <1>7. QED
    BY <1>4, <1>5, <1>6, AnswersForNone, ReadKeeps

\* A check that lets the edge pass, or not.
LEMMA CheckKeeps ==
    ASSUME IInv, NEW p \in Writer, proc[p].pc \in {"cycle", "duplicate", "single"},
           StoreUntouched, NEW c \in {"duplicate", "single", "edge"},
           Goto(p, Idle) \/ Goto(p, At(p, c))
    PROVE  Kept
  <1>1. proc[p] \in ProcState /\ Sound(proc[p])
    BY ProcFacts
  <1>2. \A v : ~Answers(proc[p], v)
    BY AnswersForNone
  <1>3. CASE Goto(p, Idle)
    BY <1>2, <1>3, IdleIsFine, ReadKeeps
  <1>4. CASE Goto(p, At(p, c))
    <2>1. PICK s : s = At(p, c)
      OBVIOUS
    <2>2. s \in ProcState /\ s.pc = c /\ s.link = proc[p].link /\ s.stack = proc[p].stack
      <3>1. c \in PC
        BY DEF PC
      <3>2. QED
        BY <1>1, <2>1, <3>1, MovesOn DEF At
    <2>3. Sound(s)
      BY <1>1, <2>2 DEF Sound
    <2>4. QED
      BY <1>2, <1>4, <2>1, <2>2, <2>3, ReadKeeps
  <1>5. QED
    BY <1>3, <1>4

LEMMA ChecksKeep ==
    ASSUME IInv, NEW p \in Writer, CheckCycle(p) \/ CheckDuplicate(p) \/ CheckSingle(p)
    PROVE  Kept
  <1>1. CASE CheckCycle(p)
    <2>1. Goto(p, Idle) \/ Goto(p, At(p, "duplicate"))
      BY <1>1 DEF CheckCycle
    <2>2. QED
      BY <1>1, <2>1, CheckKeeps DEF CheckCycle
  <1>2. CASE CheckDuplicate(p)
    <2>1. Goto(p, Idle) \/ Goto(p, At(p, "single")) \/ Goto(p, At(p, "edge"))
      BY <1>2 DEF CheckDuplicate
    <2>2. QED
      BY <1>2, <2>1, CheckKeeps DEF CheckDuplicate
  <1>3. CASE CheckSingle(p)
    <2>1. Goto(p, Idle) \/ Goto(p, At(p, "edge"))
      BY <1>3 DEF CheckSingle
    <2>2. QED
      BY <1>3, <2>1, CheckKeeps DEF CheckSingle
  <1>4. QED
    BY <1>1, <1>2, <1>3

LEMMA InsertEdgeKeeps ==
    ASSUME IInv, NEW p \in Writer, NEW e \in Edge, InsertEdge(p, e)
    PROVE  Kept
  <1>1. proc[p].pc = "edge" /\ proc[p].link \in Link /\ StoreOK
    BY ProcFacts DEF InsertEdge, Sound
  <1>2. StoreOK'
    BY <1>1 DEF InsertEdge, StoreOK
  <1>3. Goto(p, Idle) /\ UNCHANGED <<status, details, faults>>
    BY DEF InsertEdge
  <1>4. QED
    BY <1>1, <1>2, <1>3, IdleIsFine, AnswersForNone, EdgesKeep

-----------------------------------------------------------------------------
(* deleteEdge() and deleteVertex().                                        *)

LEMMA BeginDeleteEdgeKeeps ==
    ASSUME IInv, NEW p \in Writer, proc[p].pc = "idle", NEW e \in Edge,
           BeginDeleteEdge(p, e)
    PROVE  Kept
  <1>1. PICK c \in {"count", "remove"} :
             c = IF link[e].name \in Cascade THEN "count" ELSE "remove"
    OBVIOUS
  <1>2. PICK s : s = [Idle EXCEPT !.pc = c, !.edge = e]
    OBVIOUS
  <1>3. s \in ProcState /\ s.pc = c /\ s.edge = e /\ s.stack = <<>>
    BY <1>2, IdleIsFine DEF ProcState, PC
  <1>4. Sound(s)
    BY <1>3, EmptySeq DEF Sound
  <1>5. Goto(p, s) /\ StoreUntouched
    BY <1>1, <1>2 DEF BeginDeleteEdge
  <1>6. QED
    BY <1>3, <1>4, <1>5, AnswersForNone, ReadKeeps

LEMMA BeginDeleteVertexKeeps ==
    ASSUME IInv, NEW p \in Writer, proc[p].pc = "idle", NEW v \in Vertex,
           BeginDeleteVertex(p, v)
    PROVE  Kept
  <1>1. PICK f : f = Call(v, None)
    OBVIOUS
  <1>2. f \in Frame /\ f.vertex = v
    BY <1>1 DEF Call, Frame, Stage
  <1>3. PICK t : t = <<f>>
    OBVIOUS
  <1>4. t \in Seq(Frame) /\ Len(t) = 1 /\ t # <<>> /\ t[1] = f
    BY <1>2, <1>3
  <1>5. PICK s : s = [Idle EXCEPT !.pc = "walk", !.stack = t]
    OBVIOUS
  <1>6. s \in ProcState /\ s.pc = "walk" /\ s.stack = t
    BY <1>4, <1>5, IdleIsFine DEF ProcState, PC
  <1>7. Born(v)
    BY DEF BeginDeleteVertex, MayDelete, There, Born
  <1>8. Sound(s)
    <2>1. ASSUME NEW i \in 1 .. Len(s.stack) PROVE Born(s.stack[i].vertex)
      <3>1. i = 1
        <4>1. i \in 1 .. 1
          BY <1>4, <1>6, Zenon
        <4>2. QED
          BY <4>1
      <3>2. s.stack[i].vertex = v
        BY <1>2, <1>4, <1>6, <3>1
      <3>3. QED
        BY <1>7, <3>2
    <2>2. QED
      BY <1>4, <1>6, <2>1 DEF Sound
  <1>9. Goto(p, s) /\ StoreUntouched
    BY <1>1, <1>3, <1>5 DEF BeginDeleteVertex
  <1>10. QED
    BY <1>6, <1>8, <1>9, AnswersForNone, ReadKeeps

\* A walk goes on in the innermost call, as frame f.
LEMMA WithTopFacts ==
    ASSUME IInv, NEW p \in Writer, proc[p].pc = "walk",
           NEW f \in Frame, f.vertex = Top(p).vertex
    PROVE  /\ WithTop(p, f) \in ProcState
           /\ WithTop(p, f).pc = "walk"
           /\ WithTop(p, f).stack \in Seq(Frame)
           /\ WithTop(p, f).stack # <<>>
           /\ WithTop(p, f).stack[Len(WithTop(p, f).stack)] = f
           /\ \A i \in 1 .. Len(WithTop(p, f).stack) :
                 Born(WithTop(p, f).stack[i].vertex)
  <1>1. proc[p] \in ProcState /\ Sound(proc[p])
    BY ProcFacts
  <1>2. PICK t : t = proc[p].stack
    OBVIOUS
  <1>3. t \in Seq(Frame) /\ t # <<>> /\ \A i \in 1 .. Len(t) : Born(t[i].vertex)
    BY <1>1, <1>2 DEF Sound, ProcState
  <1>4. PICK u : u = [t EXCEPT ![Len(t)] = f]
    OBVIOUS
  <1>5. /\ u \in Seq(Frame) /\ Len(u) = Len(t) /\ u # <<>> /\ u[Len(t)] = f
        /\ Len(t) \in Nat \ {0}
        /\ \A i \in 1 .. Len(t) : i # Len(t) => u[i] = t[i]
    BY <1>3, <1>4, TopFacts
  <1>6. WithTop(p, f) = [proc[p] EXCEPT !.stack = u]
    BY <1>2, <1>4 DEF WithTop
  <1>7. /\ [proc[p] EXCEPT !.stack = u] \in ProcState
        /\ [proc[p] EXCEPT !.stack = u].pc = "walk"
        /\ [proc[p] EXCEPT !.stack = u].stack = u
    BY <1>1, <1>5 DEF ProcState
  <1>8. \A i \in 1 .. Len(u) : Born(u[i].vertex)
    <2>1. f.vertex = t[Len(t)].vertex
      BY <1>2 DEF Top
    <2>2. QED
      BY <1>3, <1>5, <2>1
  <1>9. QED
    BY <1>5, <1>6, <1>7, <1>8

\* A step of the walk that only reads, and stays in the innermost call.
LEMMA WalkKeeps ==
    ASSUME IInv, NEW p \in Writer, proc[p].pc = "walk", Top(p).stage # "last",
           NEW f \in Frame, f.vertex = Top(p).vertex,
           Goto(p, WithTop(p, f)), StoreUntouched
    PROVE  Kept
  <1>1. PICK s : s = WithTop(p, f)
    OBVIOUS
  <1>2. s \in ProcState /\ s.pc = "walk" /\ Sound(s)
    BY <1>1, WithTopFacts DEF Sound
  <1>3. \A v : ~Answers(proc[p], v)
    BY AnswersForNone DEF Top
  <1>4. QED
    BY <1>1, <1>2, <1>3, ReadKeeps

\* The same, and on to the deletion of an edge.
LEMMA PickKeeps ==
    ASSUME IInv, NEW p \in Writer, proc[p].pc = "walk", Top(p).stage # "last",
           NEW f \in Frame, f.vertex = Top(p).vertex,
           NEW c \in {"count", "remove"}, NEW e \in Edge,
           Goto(p, [WithTop(p, f) EXCEPT !.pc = c, !.edge = e]), StoreUntouched
    PROVE  Kept
  <1>1. PICK t : t = WithTop(p, f)
    OBVIOUS
  <1>2. PICK s : s = [t EXCEPT !.pc = c, !.edge = e]
    OBVIOUS
  <1>3. t \in ProcState /\ \A i \in 1 .. Len(t.stack) : Born(t.stack[i].vertex)
    BY <1>1, WithTopFacts
  <1>4. s \in ProcState /\ s.pc = c /\ s.edge = e /\ s.stack = t.stack
    BY <1>2, <1>3 DEF ProcState, PC
  <1>5. Sound(s)
    BY <1>3, <1>4 DEF Sound
  <1>6. \A v : ~Answers(proc[p], v)
    BY AnswersForNone DEF Top
  <1>7. QED
    BY <1>1, <1>2, <1>4, <1>5, <1>6, ReadKeeps

\* The innermost call of a walk.
LEMMA TopIsFrame ==
    ASSUME IInv, NEW p \in Writer, proc[p].pc = "walk"
    PROVE  Top(p) \in Frame /\ Born(Top(p).vertex)
  <1>1. proc[p] \in ProcState /\ Sound(proc[p])
    BY ProcFacts
  <1>2. proc[p].stack \in Seq(Frame) /\ proc[p].stack # <<>>
    BY <1>1 DEF Sound, ProcState
  <1>3. Len(proc[p].stack) \in 1 .. Len(proc[p].stack) /\ Top(p) \in Frame
    BY <1>2, TopFacts DEF Top
  <1>4. QED
    BY <1>1, <1>3 DEF Sound, Top

LEMMA ReadIncomingKeeps ==
    ASSUME IInv, NEW p \in Writer, ReadIncoming(p)
    PROVE  Kept
  <1>1. proc[p].pc = "walk" /\ Top(p).stage = "start"
    BY DEF ReadIncoming, Walking
  <1>2. Top(p) \in Frame /\ edges \subseteq Edge
    BY <1>1, TopIsFrame DEF IInv, StoreOK
  <1>3. PICK f : f = [Top(p) EXCEPT !.stage = "in", !.todo = Incoming(Top(p).vertex)]
    OBVIOUS
  <1>4. f \in Frame /\ f.vertex = Top(p).vertex
    BY <1>2, <1>3 DEF Frame, Stage, Incoming
  <1>5. Goto(p, WithTop(p, f)) /\ StoreUntouched
    BY <1>3 DEF ReadIncoming
  <1>6. QED
    BY <1>1, <1>4, <1>5, WalkKeeps

LEMMA ReadOutgoingKeeps ==
    ASSUME IInv, NEW p \in Writer, ReadOutgoing(p)
    PROVE  Kept
  <1>1. proc[p].pc = "walk" /\ Top(p).stage = "in"
    BY DEF ReadOutgoing, Walking
  <1>2. Top(p) \in Frame /\ edges \subseteq Edge
    BY <1>1, TopIsFrame DEF IInv, StoreOK
  <1>3. PICK f : f = [Top(p) EXCEPT !.stage = "out", !.todo = OutgoingOf(Top(p).vertex)]
    OBVIOUS
  <1>4. f \in Frame /\ f.vertex = Top(p).vertex
    BY <1>2, <1>3 DEF Frame, Stage, Outgoing, OutgoingOf
  <1>5. Goto(p, WithTop(p, f)) /\ StoreUntouched
    BY <1>3 DEF ReadOutgoing
  <1>6. QED
    BY <1>1, <1>4, <1>5, WalkKeeps

\* The innermost call, with one edge less to go.
LEMMA WithoutFacts ==
    ASSUME IInv, NEW p \in Writer, proc[p].pc = "walk", NEW e
    PROVE  \E f \in Frame : f.vertex = Top(p).vertex /\ Without(p, e) = WithTop(p, f)
  <1>1. Top(p) \in Frame
    BY TopIsFrame
  <1>2. PICK f : f = [Top(p) EXCEPT !.todo = @ \ {e}]
    OBVIOUS
  <1>3. f \in Frame /\ f.vertex = Top(p).vertex
    BY <1>1, <1>2 DEF Frame
  <1>4. Without(p, e) = WithTop(p, f)
    BY <1>2 DEF Without
  <1>5. QED
    BY <1>3, <1>4

LEMMA PickIncomingKeeps ==
    ASSUME IInv, NEW p \in Writer, NEW e \in Edge, PickIncoming(p, e)
    PROVE  Kept
  <1>1. proc[p].pc = "walk" /\ Top(p).stage = "in"
    BY DEF PickIncoming, Walking
  <1>2. PICK f \in Frame : f.vertex = Top(p).vertex /\ Without(p, e) = WithTop(p, f)
    BY <1>1, WithoutFacts
  <1>3. Top(p).stage # "last" /\ StoreUntouched
    BY <1>1 DEF PickIncoming
  <1>4. CASE link[e].source \in There
    <2>1. Goto(p, [WithTop(p, f) EXCEPT !.pc = "remove", !.edge = e])
      BY <1>2, <1>4 DEF PickIncoming
    <2>2. QED
      BY <1>1, <1>2, <1>3, <2>1, PickKeeps
  <1>5. CASE link[e].source \notin There
    <2>1. Goto(p, WithTop(p, f))
      BY <1>2, <1>5 DEF PickIncoming
    <2>2. QED
      BY <1>1, <1>2, <1>3, <2>1, WalkKeeps
  <1>6. QED
    BY <1>4, <1>5

LEMMA PickOutgoingKeeps ==
    ASSUME IInv, NEW p \in Writer, NEW e \in Edge, PickOutgoing(p, e)
    PROVE  Kept
  <1>1. proc[p].pc = "walk" /\ Top(p).stage = "out"
    BY DEF PickOutgoing, Walking
  <1>2. PICK f \in Frame : f.vertex = Top(p).vertex /\ Without(p, e) = WithTop(p, f)
    BY <1>1, WithoutFacts
  <1>3. Top(p).stage # "last" /\ StoreUntouched
    BY <1>1 DEF PickOutgoing
  <1>4. PICK c \in {"count", "remove"} :
             c = IF link[e].name \in Cascade THEN "count" ELSE "remove"
    OBVIOUS
  <1>5. Goto(p, [WithTop(p, f) EXCEPT !.pc = c, !.edge = e])
    BY <1>2, <1>4 DEF PickOutgoing
  <1>6. QED
    BY <1>1, <1>2, <1>3, <1>5, PickKeeps

\* Back to the loop the deletion of the edge was called from, or at rest.
LEMMA ResumeFacts ==
    ASSUME NEW s \in ProcState, Sound(s)
    PROVE  /\ Resume(s) \in ProcState
           /\ Sound(Resume(s))
           /\ Resume(s).pc # "vertex"
  <1>1. CASE s.stack = <<>>
    <2>1. Resume(s) = Idle
      BY <1>1 DEF Resume
    <2>2. QED
      BY <2>1, IdleIsFine
  <1>2. CASE s.stack # <<>>
    <2>1. PICK t : t = [s EXCEPT !.pc = "walk", !.edge = None]
      OBVIOUS
    <2>2. t = Resume(s)
      BY <1>2, <2>1 DEF Resume
    <2>3. t \in ProcState /\ t.pc = "walk" /\ t.stack = s.stack
      BY <2>1 DEF ProcState, PC
    <2>4. Sound(t)
      BY <1>2, <2>3 DEF Sound
    <2>5. QED
      BY <2>2, <2>3, <2>4
  <1>3. QED
    BY <1>1, <1>2

LEMMA CountTargetKeeps ==
    ASSUME IInv, NEW p \in Writer, CountTarget(p)
    PROVE  Kept
  <1>1. /\ proc[p] \in ProcState /\ Sound(proc[p]) /\ proc[p].pc = "count"
        /\ proc[p].edge \in Edge /\ StoreUntouched
    BY ProcFacts DEF CountTarget, Sound
  <1>2. PICK e \in Edge : e = proc[p].edge
    BY <1>1
  <1>3. PICK v : v = link[e].target
    OBVIOUS
  <1>4. \A u : ~Answers(proc[p], u)
    BY <1>1, AnswersForNone
  <1>5. CASE Goto(p, At(p, "remove"))
    <2>1. PICK s : s = At(p, "remove")
      OBVIOUS
    <2>2. s \in ProcState /\ s.pc = "remove" /\ s.edge = e /\ s.stack = proc[p].stack
      BY <1>1, <1>2, <2>1, MovesOn DEF At, PC
    <2>3. Sound(s)
      BY <1>1, <1>2, <2>2 DEF Sound
    <2>4. QED
      BY <1>1, <1>4, <1>5, <2>1, <2>2, <2>3, ReadKeeps
  <1>6. CASE /\ MayDelete(v)
             /\ Goto(p, [At(p, "walk") EXCEPT !.stack = Append(@, Call(v, e)), !.edge = None])
    <2>1. PICK f : f = Call(v, e)
      OBVIOUS
    <2>2. v \in Vertex /\ Born(v)
      BY <1>6 DEF MayDelete, There, Born
    <2>3. f \in Frame /\ f.vertex = v
      BY <2>1, <2>2 DEF Call, Frame, Stage
    <2>4. proc[p].stack \in Seq(Frame)
      BY <1>1 DEF ProcState
    <2>5. PICK t : t = Append(proc[p].stack, f)
      OBVIOUS
    <2>6. /\ t \in Seq(Frame) /\ t # <<>>
          /\ Len(proc[p].stack) \in Nat /\ Len(t) = Len(proc[p].stack) + 1
          /\ \A i \in 1 .. Len(proc[p].stack) : t[i] = proc[p].stack[i]
          /\ t[Len(proc[p].stack) + 1] = f
      BY <2>3, <2>4, <2>5, PushFacts
    <2>7. PICK s : s = [At(p, "walk") EXCEPT !.stack = Append(@, f), !.edge = None]
      OBVIOUS
    <2>8. s \in ProcState /\ s.pc = "walk" /\ s.stack = t
      <3>1. s = [proc[p] EXCEPT !.pc = "walk", !.stack = t, !.edge = None]
        BY <1>1, <2>5, <2>7 DEF At, ProcState
      <3>2. QED
        BY <1>1, <2>6, <3>1 DEF ProcState, PC
    <2>9. \A i \in 1 .. Len(t) : Born(t[i].vertex)
      <3>1. \A i \in 1 .. Len(proc[p].stack) : Born(proc[p].stack[i].vertex)
        BY <1>1 DEF Sound
      <3>2. QED
        BY <2>2, <2>3, <2>6, <3>1
    <2>10. Sound(s)
      BY <2>6, <2>8, <2>9 DEF Sound
    <2>11. QED
      BY <1>1, <1>4, <1>6, <2>1, <2>7, <2>8, <2>10, ReadKeeps
  <1>7. CASE Goto(p, Resume(proc[p]))
    BY <1>1, <1>4, <1>7, ResumeFacts, ReadKeeps
  <1>8. QED
    BY <1>2, <1>3, <1>5, <1>6, <1>7 DEF CountTarget

\* The state in which the edge is known to be gone.
LEMMA RemovedFacts ==
    ASSUME NEW s \in ProcState, Sound(s), NEW e \in Edge
    PROVE  /\ [s EXCEPT !.removed = @ \union {e}] \in ProcState
           /\ Sound([s EXCEPT !.removed = @ \union {e}])
  <1>1. PICK t : t = [s EXCEPT !.removed = @ \union {e}]
    OBVIOUS
  <1>2. /\ t \in ProcState /\ t.pc = s.pc /\ t.vertex = s.vertex /\ t.link = s.link
        /\ t.edge = s.edge /\ t.stack = s.stack
    BY <1>1 DEF ProcState
  <1>3. Sound(t)
    BY <1>2 DEF Sound
  <1>4. QED
    BY <1>1, <1>2, <1>3

LEMMA RemoveEdgeKeeps ==
    ASSUME IInv, NEW p \in Writer, RemoveEdge(p)
    PROVE  Kept
  <1>1. proc[p] \in ProcState /\ Sound(proc[p]) /\ proc[p].pc = "remove"
        /\ proc[p].edge \in Edge /\ StoreOK
    BY ProcFacts DEF RemoveEdge, Sound
  <1>2. PICK t : t = [proc[p] EXCEPT !.removed = @ \union {proc[p].edge}]
    OBVIOUS
  <1>3. t \in ProcState /\ Sound(t)
    BY <1>1, <1>2, RemovedFacts
  <1>4. Goto(p, Resume(t)) /\ edges' = edges \ {proc[p].edge}
        /\ UNCHANGED <<status, details, link, faults>>
    BY <1>2 DEF RemoveEdge
  <1>5. StoreOK'
    BY <1>1, <1>4 DEF StoreOK
  <1>6. QED
    BY <1>1, <1>3, <1>4, <1>5, ResumeFacts, AnswersForNone, EdgesKeep

LEMMA RemoveEdgeFailsKeeps ==
    ASSUME IInv, NEW p \in Writer, RemoveEdgeFails(p)
    PROVE  Kept
  <1>1. proc[p] \in ProcState /\ Sound(proc[p])
    BY ProcFacts
  <1>2. QED
    BY <1>1, ResumeFacts, FaultKeeps DEF RemoveEdgeFails

LEMMA CrashKeeps ==
    ASSUME IInv, NEW p \in Writer, Crash(p)
    PROVE  Kept
  BY IdleIsFine, FaultKeeps DEF Crash

LEMMA RemoveDetailsKeeps ==
    ASSUME IInv, NEW p \in Writer, RemoveDetails(p)
    PROVE  Kept
  <1>1. proc[p].pc = "walk" /\ Top(p).stage = "out" /\ StoreOK
    BY ProcFacts DEF RemoveDetails, Walking
  <1>2. Top(p) \in Frame
    BY <1>1, TopIsFrame
  <1>3. PICK f : f = [Top(p) EXCEPT !.stage = "last"]
    OBVIOUS
  <1>4. f \in Frame /\ f.vertex = Top(p).vertex /\ f.stage = "last"
    BY <1>2, <1>3 DEF Frame, Stage
  <1>5. PICK s : s = WithTop(p, f)
    OBVIOUS
  <1>6. /\ Goto(p, s) /\ details' = details \ {f.vertex}
        /\ UNCHANGED <<status, edges, link, faults>>
    BY <1>3, <1>4, <1>5 DEF RemoveDetails
  <1>7. /\ s \in ProcState /\ s.pc = "walk" /\ s.stack # <<>>
        /\ s.stack[Len(s.stack)] = f
        /\ \A i \in 1 .. Len(s.stack) : Born(s.stack[i].vertex)
    BY <1>1, <1>4, <1>5, WithTopFacts
  <1>8. StoreOK' /\ Onward
    BY <1>1, <1>6 DEF StoreOK, Onward, Born
  <1>9. Sound(s)'
    BY <1>6, <1>7 DEF Sound, Born
  <1>10. \A u \in Bare' : Answers(s, u) \/ (u \in Bare /\ ~Answers(proc[p], u))
    <2>1. \A u : ~Answers(proc[p], u)
      BY <1>1, AnswersForNone DEF Top
    <2>2. \A u \in Bare' : u \in Bare \/ u = f.vertex
      BY <1>6 DEF Bare, There
    <2>3. Answers(s, f.vertex)
      BY <1>4, <1>7 DEF Answers
    <2>4. QED
      BY <2>1, <2>2, <2>3
  <1>11. Stranding
    BY <1>6, <1>10, StrandingStep DEF IInv, ProcOK
  <1>12. QED
    BY <1>6, <1>7, <1>8, <1>9, <1>11, StepKeeps

LEMMA RemoveVertexKeeps ==
    ASSUME IInv, NEW p \in Writer, RemoveVertex(p)
    PROVE  Kept
  <1>1. /\ proc[p].pc = "walk" /\ Top(p).stage = "last" /\ StoreOK
        /\ proc[p] \in ProcState /\ Sound(proc[p])
    BY ProcFacts DEF RemoveVertex, Walking
  <1>2. Top(p) \in Frame /\ Born(Top(p).vertex)
    BY <1>1, TopIsFrame
  <1>3. PICK v \in Vertex : v = Top(p).vertex /\ Born(v)
    BY <1>2 DEF Frame
  <1>4. status' = Removed(v) /\ UNCHANGED <<details, edges, link, faults>>
    BY <1>3 DEF RemoveVertex
  <1>5. /\ StoreOK' /\ Onward /\ Bare' = Bare \ {v}
        /\ \A u \in Vertex : status[u] = "drawn" => status'[u] = "drawn"
    BY <1>1, <1>3, <1>4, RemovedVertex
  <1>6. \A u : Answers(proc[p], u) => u = v
    BY <1>1, <1>3 DEF Answers, Top
  <1>7. \A u \in Bare' : u \in Bare /\ ~Answers(proc[p], u)
    BY <1>5, <1>6
  <1>8. PICK s \in ProcState : Goto(p, s) /\ Sound(s) /\ s.pc # "vertex"
    <2>1. CASE Top(p).via = None
      BY <2>1, IdleIsFine DEF RemoveVertex
    <2>2. CASE Top(p).via # None
      <3>1. PICK t : t = Front(proc[p].stack)
        OBVIOUS
      <3>2. proc[p].stack \in Seq(Frame) /\ proc[p].stack # <<>>
        BY <1>1 DEF ProcState, Sound
      <3>3. /\ t \in Seq(Frame)
            /\ Len(proc[p].stack) \in Nat /\ Len(t) = Len(proc[p].stack) - 1
            /\ \A i \in 1 .. Len(proc[p].stack) - 1 : t[i] = proc[p].stack[i]
        BY <3>1, <3>2, FrontFacts
      <3>4. PICK s : s = [At(p, "remove") EXCEPT !.stack = Front(@), !.edge = Top(p).via]
        OBVIOUS
      <3>5. Top(p).via \in Edge
        BY <1>2, <2>2 DEF Frame
      <3>6. s = [proc[p] EXCEPT !.pc = "remove", !.stack = t, !.edge = Top(p).via]
        BY <1>1, <3>1, <3>4 DEF At, ProcState
      <3>7. s \in ProcState /\ s.pc = "remove" /\ s.edge \in Edge /\ s.stack = t
        BY <1>1, <3>3, <3>5, <3>6 DEF ProcState, PC
      <3>8. \A i \in 1 .. Len(t) : Born(t[i].vertex)
        BY <1>1, <3>3 DEF Sound
      <3>9. Sound(s)
        BY <3>7, <3>8 DEF Sound
      <3>10. Goto(p, s)
        BY <2>2, <3>4 DEF RemoveVertex
      <3>11. QED
        BY <3>7, <3>9, <3>10
    <2>3. QED
      BY <2>1, <2>2
  <1>9. Sound(s)'
    <2>1. \A i \in 1 .. Len(s.stack) : Born(s.stack[i].vertex)'
      BY <1>5, <1>8, StackStays
    <2>2. s.pc \in {"details", "undo"} => Born(s.vertex)'
      BY <1>5, <1>8 DEF Sound, Onward
    <2>3. QED
      BY <1>8, <2>1, <2>2 DEF Sound
  <1>10. Stranding
    BY <1>4, <1>7, <1>8, StrandingStep DEF IInv, ProcOK
  <1>11. QED
    BY <1>5, <1>8, <1>9, <1>10, StepKeeps

-----------------------------------------------------------------------------
(* Every step, and what follows for behaviours.                            *)

LEMMA InitIsFine == Init => IInv /\ Stranded = {} /\ faults = 0
  <1> SUFFICES ASSUME Init PROVE IInv /\ Stranded = {} /\ faults = 0
    OBVIOUS
  <1>1. StoreOK
    BY SeedIsVertices, MaxFaultsInNat DEF Init, StoreOK
  <1>2. ProcOK
    BY IdleIsFine DEF Init, ProcOK
  <1>3. Distinct
    BY IdleIsFine DEF Init, Distinct
  <1>4. Stranded = {}
    BY DEF Init, Stranded, There
  <1>5. QED
    BY <1>1, <1>2, <1>3, <1>4 DEF IInv, Init

LEMMA NothingKeeps ==
    ASSUME IInv, UNCHANGED vars
    PROVE  Kept
  <1>1. IInv'
    BY DEF vars, IInv, StoreOK, ProcOK, Distinct, Sound, Born
  <1>2. Onward
    BY DEF vars, Onward, Born
  <1>3. Stranded' = Stranded
    BY DEF vars, Stranded, There, Responsible, Walking, Top
  <1>4. QED
    BY <1>1, <1>2, <1>3 DEF Kept, Stranding, vars

LEMMA NextKeeps ==
    ASSUME IInv, [Next]_vars
    PROVE  Kept
  <1>1. ASSUME NEW p \in Writer, BeginRequest(p) PROVE Kept
    BY <1>1, BeginAddVertexKeeps, BeginEditVertexKeeps, BeginDeleteVertexKeeps,
       BeginAddEdgeKeeps, BeginDeleteEdgeKeeps DEF BeginRequest
  <1>2. ASSUME NEW p \in Writer, Continue(p) PROVE Kept
    BY <1>2, InsertVertexKeeps, InsertDetailsKeeps, UndoVertexKeeps,
       UpsertDetailsKeeps, EditVertexKeeps, ChecksKeep, InsertEdgeKeeps,
       PickIncomingKeeps, PickOutgoingKeeps, ReadIncomingKeeps, ReadOutgoingKeeps,
       CountTargetKeeps, RemoveEdgeKeeps, RemoveEdgeFailsKeeps, RemoveDetailsKeeps,
       RemoveVertexKeeps DEF Continue
  <1>3. QED
    BY <1>1, <1>2, CrashKeeps, NothingKeeps DEF Next, Step

THEOREM Invariance == Spec => []IInv
  <1>1. Init => IInv
    BY InitIsFine
  <1>2. IInv /\ [Next]_vars => IInv'
    BY NextKeeps DEF Kept
  <1>3. QED
    BY <1>1, <1>2, PTL DEF Spec

(* Documents and locals keep their shape: an edge that is there says what   *)
(* it links, and a walk is in some call of deleteVertex().                 *)
THEOREM TypeCorrectness == Spec => []TypeOK
  <1>1. IInv => TypeOK
    BY DEF IInv, StoreOK, ProcOK, Sound, TypeOK
  <1>2. QED
    BY <1>1, Invariance, PTL

(* A vertex that was deleted never comes back, however many edits that      *)
(* began before the delete upsert its collection document afterwards.      *)
THEOREM DeletedStaysDeleted == Spec => GoneForGood
  <1>1. IInv /\ [Next]_vars => [\A v \in Vertex : status[v] = "gone" => status'[v] = "gone"]_vars
    BY NextKeeps DEF Kept, Onward
  <1>2. QED
    BY <1>1, Invariance, PTL DEF Spec, GoneForGood

\* One more vertex counts for one more.
LEMMA OneMore ==
    ASSUME NEW S, NEW T, NEW v, NEW n \in Nat,
           IsFiniteSet(S), Cardinality(S) <= n, T \subseteq S \union {v}
    PROVE  IsFiniteSet(T) /\ Cardinality(T) <= n + 1
  <1>1. /\ IsFiniteSet(S \union {v}) /\ Cardinality(S) \in Nat
        /\ \/ Cardinality(S \union {v}) = Cardinality(S)
           \/ Cardinality(S \union {v}) = Cardinality(S) + 1
    BY FS_AddElement, FS_CardinalityType
  <1>2. /\ IsFiniteSet(T) /\ Cardinality(T) \in Nat
        /\ Cardinality(T) <= Cardinality(S \union {v})
    BY <1>1, FS_Subset, FS_CardinalityType
  <1>3. QED
    BY <1>1, <1>2

Few == IsFiniteSet(Stranded) /\ Cardinality(Stranded) <= faults

(* A vertex without its collection document that no writer is about to     *)
(* complete or remove takes a fault, one for each, however many writers    *)
(* add, edit and delete at once.                                           *)
THEOREM StrandedOnlyByFaults == Spec => []StrandedByFaults
  <1>1. Init => Few
    BY InitIsFine, FS_EmptySet DEF Few
  <1>2. ASSUME IInv, Few, [Next]_vars PROVE Few'
    <2>1. faults \in Nat /\ Stranding
      BY <1>2, NextKeeps, MaxFaultsInNat DEF IInv, StoreOK, Kept
    <2>2. CASE faults' = faults /\ Stranded' \subseteq Stranded
      <3>1. /\ IsFiniteSet(Stranded') /\ Cardinality(Stranded') \in Nat
            /\ Cardinality(Stranded') <= Cardinality(Stranded)
        BY <1>2, <2>2, FS_Subset, FS_CardinalityType DEF Few
      <3>2. Cardinality(Stranded) \in Nat
        BY <1>2, FS_CardinalityType DEF Few
      <3>3. QED
        BY <1>2, <2>1, <2>2, <3>1, <3>2 DEF Few
    <2>3. CASE faults' = faults + 1 /\ \E v : Stranded' \subseteq Stranded \union {v}
      <3>1. IsFiniteSet(Stranded') /\ Cardinality(Stranded') <= faults + 1
        BY <1>2, <2>1, <2>3, OneMore DEF Few
      <3>2. QED
        BY <2>3, <3>1 DEF Few
    <2>4. QED
      BY <2>1, <2>2, <2>3 DEF Stranding
  <1>3. Spec => []Few
    <2>1. IInv /\ Few /\ [Next]_vars => Few'
      BY <1>2
    <2>2. QED
      BY <1>1, <2>1, Invariance, PTL DEF Spec
  <1>4. Few => StrandedByFaults
    BY DEF Few, StrandedByFaults
  <1>5. QED
    BY <1>3, <1>4, PTL

-----------------------------------------------------------------------------
(* Paths, for edges E that link as L says.                                 *)

ClosedIn(E, L, S) == \A e \in E : L[e].source \in S => L[e].target \in S

FollowedIn(E, L, v, S) == \A e \in E : L[e].source = v => L[e].target \in S

ReachesIn(E, L, v, w) ==
    \A S \in SUBSET Vertex : FollowedIn(E, L, v, S) /\ ClosedIn(E, L, S) => w \in S

LEMMA ReachesIsReachesIn ==
    ASSUME NEW v, NEW w
    PROVE  /\ Reaches(v, w) <=> ReachesIn(edges, link, v, w)
           /\ Reaches(v, w)' <=> ReachesIn(edges', link', v, w)
  <1>1. \A S : Successors(v) \subseteq S <=> FollowedIn(edges, link, v, S)
    BY DEF Successors, FollowedIn
  <1>2. \A S : (Successors(v) \subseteq S)' <=> FollowedIn(edges', link', v, S)
    BY DEF Successors, FollowedIn
  <1>3. Reaches(v, w) <=> ReachesIn(edges, link, v, w)
    BY <1>1 DEF Reaches, ReachesIn, Closed, ClosedIn
  <1>4. Reaches(v, w)' <=> ReachesIn(edges', link', v, w)
    BY <1>2 DEF Reaches, ReachesIn, Closed, ClosedIn
  <1>5. QED
    BY <1>3, <1>4

\* An edge less makes no path.
LEMMA FewerEdges ==
    ASSUME NEW E, NEW F \in SUBSET E, NEW L, NEW v, NEW w, ReachesIn(F, L, v, w)
    PROVE  ReachesIn(E, L, v, w)
  <1>1. ASSUME NEW S \in SUBSET Vertex, FollowedIn(E, L, v, S), ClosedIn(E, L, S)
        PROVE  w \in S
    <2>1. FollowedIn(F, L, v, S) /\ ClosedIn(F, L, S)
      BY <1>1 DEF FollowedIn, ClosedIn
    <2>2. QED
      BY <2>1 DEF ReachesIn
  <1>2. QED
    BY <1>1 DEF ReachesIn

\* An edge from s to t makes no cycle, unless there is a path from t to s.
LEMMA AnotherEdge ==
    ASSUME NEW E, NEW L, NEW e, NEW M,
           \A f \in E : f # e /\ M[f] = L[f],
           NEW s \in Vertex, NEW t \in Vertex, s # t,
           M[e].source = s, M[e].target = t,
           ~ReachesIn(E, L, t, s),
           NEW x \in Vertex, ~ReachesIn(E, L, x, x)
    PROVE  ~ReachesIn(E \union {e}, M, x, x)
  <1>1. PICK C \in SUBSET Vertex : FollowedIn(E, L, t, C) /\ ClosedIn(E, L, C) /\ s \notin C
    BY DEF ReachesIn
  <1>2. PICK D \in SUBSET Vertex : FollowedIn(E, L, x, D) /\ ClosedIn(E, L, D) /\ x \notin D
    BY DEF ReachesIn
  <1>3. PICK A \in SUBSET Vertex : A = C \union {t}
    OBVIOUS
  <1>4. ClosedIn(E, L, A) /\ s \notin A /\ t \in A
    BY <1>1, <1>3 DEF FollowedIn, ClosedIn
  <1>5. CASE x \in A
    <2>1. PICK B \in SUBSET Vertex : B = D \intersect A
      OBVIOUS
    <2>2. FollowedIn(E \union {e}, M, x, B)
      BY <1>2, <1>4, <1>5, <2>1 DEF FollowedIn, ClosedIn
    <2>3. ClosedIn(E \union {e}, M, B)
      BY <1>2, <1>4, <2>1 DEF ClosedIn
    <2>4. x \notin B
      BY <1>2, <2>1
    <2>5. QED
      BY <2>2, <2>3, <2>4 DEF ReachesIn
  <1>6. CASE x \notin A
    <2>1. PICK B \in SUBSET Vertex : B = D \union A
      OBVIOUS
    <2>2. FollowedIn(E \union {e}, M, x, B)
      BY <1>2, <1>4, <2>1 DEF FollowedIn
    <2>3. ClosedIn(E \union {e}, M, B)
      BY <1>2, <1>4, <2>1 DEF ClosedIn
    <2>4. x \notin B
      BY <1>2, <1>6, <2>1
    <2>5. QED
      BY <2>2, <2>3, <2>4 DEF ReachesIn
  <1>7. QED
    BY <1>5, <1>6

-----------------------------------------------------------------------------
(* Writers that do not overlap.                                            *)

\* What the checks of a writer in state s have established by now.
Checked(s) ==
    /\ s.pc \in {"cycle", "duplicate", "single", "edge"} =>
          s.link.source \in There /\ s.link.target \in There /\ s.link.source # s.link.target
    /\ s.pc \in {"duplicate", "single", "edge"} => ~Reaches(s.link.target, s.link.source)
    /\ s.pc \in {"single", "edge"} => \A e \in edges : link[e] # s.link
    /\ s.pc = "edge" /\ s.link.name \in OneToOne =>
          \A e \in edges : ~SameRelation(link[e], s.link)
    /\ s.pc \in {"vertex", "details"} => KeyIsFree(s.vertex)
    /\ s.pc = "upsert" => s.vertex \in details

OneAtATime ==
    \A p, q \in Writer : proc[p].pc # "idle" /\ proc[q].pc # "idle" => p = q

SInv ==
    /\ IInv
    /\ OneAtATime
    /\ \A p \in Writer : Checked(proc[p])
    /\ Acyclic
    /\ Unambiguous

\* What is left to show of a step of p, which leaves p with s.
LEMMA AloneKeeps ==
    ASSUME SInv, IInv', NEW p \in Writer, Alone(p), NEW s, Goto(p, s),
           Checked(s)', Acyclic', Unambiguous'
    PROVE  SInv'
  <1>1. proc'[p] = s /\ \A q \in Writer : q # p => proc'[q].pc = "idle"
    BY DEF SInv, IInv, ProcOK, Goto, Alone
  <1>2. OneAtATime'
    BY <1>1 DEF OneAtATime
  <1>3. ASSUME NEW q \in Writer PROVE Checked(proc[q])'
    <2>1. CASE q = p
      BY <1>1, <2>1 DEF Checked
    <2>2. CASE q # p
      BY <1>1, <2>2 DEF Checked
    <2>3. QED
      BY <2>1, <2>2
  <1>4. QED
    BY <1>2, <1>3 DEF SInv

\* The states no check says anything about.
LEMMA NothingToCheck ==
    ASSUME NEW s, s.pc \in {"idle", "undo", "edit", "walk", "count", "remove"}
    PROVE  Checked(s)'
  BY DEF Checked

\* Edges that stay make no cycle.
LEMMA StaysAcyclic ==
    ASSUME Acyclic, edges' \subseteq edges, link' = link
    PROVE  Acyclic'
  BY ReachesIsReachesIn, FewerEdges DEF Acyclic

\* Edges and collection documents that stay are as unambiguous as before.
LEMMA StaysUnambiguous ==
    ASSUME Unambiguous, edges' \subseteq edges, link' = link, details' \subseteq details
    PROVE  Unambiguous'
  BY DEF Unambiguous

\* Steps that add neither an edge nor a collection document.
LEMMA ShrinkKeeps ==
    ASSUME SInv, IInv', NEW p \in Writer, Alone(p), NEW s, Goto(p, s), Checked(s)',
           edges' \subseteq edges, link' = link, details' \subseteq details
    PROVE  SInv'
  <1>1. Acyclic' /\ Unambiguous'
    BY StaysAcyclic, StaysUnambiguous DEF SInv
  <1>2. QED
    BY <1>1, AloneKeeps

LEMMA AddVertexChecks ==
    ASSUME SInv, IInv', NEW p \in Writer, Alone(p),
           \/ \E v \in Vertex : BeginAddVertex(p, v)
           \/ InsertVertex(p)
    PROVE  SInv'
  <1>1. proc[p] \in ProcState /\ Checked(proc[p])
    BY ProcFacts DEF SInv
  <1>2. CASE \E v \in Vertex : BeginAddVertex(p, v)
    <2>1. PICK v \in Vertex : BeginAddVertex(p, v)
      BY <1>2
    <2>2. PICK s : s = [Idle EXCEPT !.pc = "vertex", !.vertex = v]
      OBVIOUS
    <2>3. s.pc = "vertex" /\ s.vertex = v
      BY <2>2, IdleIsFine DEF ProcState
    <2>4. Goto(p, s) /\ KeyIsFree(v) /\ UNCHANGED <<details, edges, link>>
      BY <2>1, <2>2 DEF BeginAddVertex
    <2>5. Checked(s)'
      BY <2>3, <2>4 DEF Checked, KeyIsFree
    <2>6. QED
      BY <2>4, <2>5, ShrinkKeeps
  <1>3. CASE InsertVertex(p)
    <2>1. PICK s : s = At(p, "details")
      OBVIOUS
    <2>2. s.pc = "details" /\ s.vertex = proc[p].vertex
      BY <1>1, <2>1, MovesOn DEF At, PC
    <2>3. proc[p].pc = "vertex" /\ Goto(p, s) /\ UNCHANGED <<details, edges, link>>
      BY <1>3, <2>1 DEF InsertVertex
    <2>4. Checked(s)'
      BY <1>1, <2>2, <2>3 DEF Checked, KeyIsFree
    <2>5. QED
      BY <2>3, <2>4, ShrinkKeeps
  <1>4. QED
    BY <1>2, <1>3

LEMMA InsertDetailsChecks ==
    ASSUME SInv, IInv', NEW p \in Writer, Alone(p), InsertDetails(p)
    PROVE  SInv'
  <1>1. proc[p] \in ProcState /\ proc[p].pc = "details" /\ KeyIsFree(proc[p].vertex)
        /\ edges' = edges /\ link' = link
    BY ProcFacts DEF SInv, Checked, InsertDetails
  <1>2. CASE details' = details \union {proc[p].vertex} /\ Goto(p, Idle)
    <2>1. ASSUME NEW K \in SameKey, NEW u \in Vertex, NEW v \in Vertex,
                 {u, v} \subseteq K \intersect details'
          PROVE  u = v
      <3>1. proc[p].vertex \in K => K \intersect details \subseteq {proc[p].vertex}
        BY <1>1 DEF KeyIsFree
      <3>2. u \in K /\ v \in K /\ u \in details' /\ v \in details'
        BY <2>1
      <3>3. CASE proc[p].vertex \in K
        BY <1>2, <3>1, <3>2, <3>3
      <3>4. CASE proc[p].vertex \notin K
        <4>1. {u, v} \subseteq K \intersect details
          BY <1>2, <3>2, <3>4
        <4>2. QED
          BY <4>1 DEF SInv, Unambiguous
      <3>5. QED
        BY <3>3, <3>4
    <2>2. Unambiguous'
      BY <1>1, <2>1 DEF SInv, Unambiguous
    <2>3. Acyclic' /\ Checked(Idle)'
      BY <1>1, StaysAcyclic, IdleIsFine, NothingToCheck DEF SInv
    <2>4. QED
      BY <1>2, <2>2, <2>3, AloneKeeps
  <1>3. CASE details' = details /\ Goto(p, At(p, "undo"))
    <2>1. PICK s : s = At(p, "undo")
      OBVIOUS
    <2>2. s.pc = "undo"
      BY <1>1, <2>1, MovesOn DEF At, PC
    <2>3. Goto(p, s) /\ Checked(s)'
      BY <1>3, <2>1, <2>2, NothingToCheck
    <2>4. QED
      BY <1>1, <1>3, <2>3, ShrinkKeeps
  <1>4. QED
    BY <1>2, <1>3 DEF InsertDetails

LEMMA EditVertexChecks ==
    ASSUME SInv, IInv', NEW p \in Writer, Alone(p),
           \/ \E v \in Vertex : BeginEditVertex(p, v)
           \/ UpsertDetails(p)
    PROVE  SInv'
  <1>1. proc[p] \in ProcState /\ Checked(proc[p])
    BY ProcFacts DEF SInv
  <1>2. CASE \E v \in Vertex : BeginEditVertex(p, v)
    <2>1. PICK v \in Vertex : BeginEditVertex(p, v)
      BY <1>2
    <2>2. PICK s : s = [Idle EXCEPT !.pc = "upsert", !.vertex = v]
      OBVIOUS
    <2>3. s.pc = "upsert" /\ s.vertex = v
      BY <2>2, IdleIsFine DEF ProcState
    <2>4. Goto(p, s) /\ v \in details /\ StoreUntouched
      BY <2>1, <2>2 DEF BeginEditVertex
    <2>5. Checked(s)'
      BY <2>3, <2>4 DEF Checked, StoreUntouched
    <2>6. QED
      BY <2>4, <2>5, ShrinkKeeps DEF StoreUntouched
  <1>3. CASE UpsertDetails(p)
    <2>1. PICK s : s = At(p, "edit")
      OBVIOUS
    <2>2. s.pc = "edit"
      BY <1>1, <2>1, MovesOn DEF At, PC
    <2>3. Goto(p, s) /\ details' = details /\ edges' = edges /\ link' = link
      BY <1>1, <1>3, <2>1 DEF UpsertDetails, Checked
    <2>4. QED
      BY <2>2, <2>3, NothingToCheck, ShrinkKeeps
  <1>4. QED
    BY <1>2, <1>3

LEMMA BeginAddEdgeChecks ==
    ASSUME SInv, IInv', NEW p \in Writer, Alone(p),
           NEW v \in Vertex, NEW w \in Vertex, NEW n \in Name, BeginAddEdge(p, v, w, n)
    PROVE  SInv'
  <1>1. PICK l : l = [source |-> v, target |-> w, name |-> n]
    OBVIOUS
  <1>2. PICK s : s = [Idle EXCEPT !.pc = "cycle", !.link = l]
    OBVIOUS
  <1>3. s.pc = "cycle" /\ s.link = l
    BY <1>2, IdleIsFine DEF ProcState
  <1>4. Goto(p, s) /\ StoreUntouched /\ v \in There /\ w \in There /\ v # w
    BY <1>1, <1>2 DEF BeginAddEdge
  <1>5. Checked(s)'
    BY <1>1, <1>3, <1>4 DEF Checked, StoreUntouched, There
  <1>6. QED
    BY <1>4, <1>5, ShrinkKeeps DEF StoreUntouched

\* Nothing is read between two checks that the first could not have read.
LEMMA ReachesStays ==
    ASSUME StoreUntouched, NEW v, NEW w
    PROVE  Reaches(v, w)' <=> Reaches(v, w)
  BY ReachesIsReachesIn DEF StoreUntouched

LEMMA ChecksCheck ==
    ASSUME SInv, IInv', NEW p \in Writer, Alone(p),
           CheckCycle(p) \/ CheckDuplicate(p) \/ CheckSingle(p)
    PROVE  SInv'
  <1>1. proc[p] \in ProcState /\ Checked(proc[p]) /\ StoreUntouched
    BY ProcFacts DEF SInv, CheckCycle, CheckDuplicate, CheckSingle
  <1>2. edges' = edges /\ link' = link /\ details' = details /\ There' = There
    BY <1>1 DEF StoreUntouched, There
  <1>3. CASE Goto(p, Idle)
    BY <1>2, <1>3, IdleIsFine, NothingToCheck, ShrinkKeeps
  <1>4. ASSUME NEW c \in {"duplicate", "single", "edge"}, Goto(p, At(p, c)),
               proc[p].pc \in {"cycle", "duplicate", "single"},
               ~Reaches(proc[p].link.target, proc[p].link.source),
               c \in {"single", "edge"} => \A e \in edges : link[e] # proc[p].link,
               c = "edge" /\ proc[p].link.name \in OneToOne =>
                  \A e \in edges : ~SameRelation(link[e], proc[p].link)
        PROVE  SInv'
    <2>1. PICK s : s = At(p, c)
      OBVIOUS
    <2>2. s.pc = c /\ s.link = proc[p].link
      <3>1. c \in PC
        BY DEF PC
      <3>2. QED
        BY <1>1, <2>1, <3>1, MovesOn DEF At
    <2>3. Checked(s)'
      <3>1. ~Reaches(s.link.target, s.link.source)'
        BY <1>1, <1>4, <2>2, ReachesStays
      <3>2. QED
        BY <1>1, <1>2, <1>4, <2>2, <3>1 DEF Checked, SameRelation
    <2>4. QED
      BY <1>2, <1>4, <2>1, <2>3, ShrinkKeeps
  <1>5. CASE CheckCycle(p)
    <2>1. ClosesCycle(proc[p].link) <=> Reaches(proc[p].link.target, proc[p].link.source)
      BY <1>1, <1>5 DEF CheckCycle, Checked, ClosesCycle
    <2>2. QED
      BY <1>3, <1>4, <1>5, <2>1 DEF CheckCycle
  <1>6. CASE CheckDuplicate(p)
    BY <1>1, <1>3, <1>4, <1>6 DEF CheckDuplicate, Checked
  <1>7. CASE CheckSingle(p)
    BY <1>1, <1>3, <1>4, <1>7 DEF CheckSingle, Checked
  <1>8. QED
    BY <1>5, <1>6, <1>7

LEMMA InsertEdgeChecks ==
    ASSUME SInv, IInv', NEW p \in Writer, Alone(p), NEW e \in Edge, InsertEdge(p, e)
    PROVE  SInv'
  <1>1. PICK l \in Link : l = proc[p].link
    BY ProcFacts DEF SInv, Sound, InsertEdge
  <1>2. /\ proc[p].pc = "edge" /\ link[e] = NoLink /\ Goto(p, Idle)
        /\ link' = [link EXCEPT ![e] = l] /\ edges' = edges \union {e} /\ details' = details
    BY <1>1 DEF InsertEdge
  <1>3. /\ link \in [Edge -> Link \union {NoLink}] /\ edges \subseteq Edge
        /\ \A f \in edges : link[f] \in Link
    BY DEF SInv, IInv, StoreOK
  <1>4. /\ l.source # l.target /\ ~Reaches(l.target, l.source)
        /\ \A f \in edges : link[f] # l
        /\ l.name \in OneToOne => \A f \in edges : ~SameRelation(link[f], l)
    BY <1>1, <1>2 DEF SInv, Checked
  <1>5. NoLink \notin Link
    BY NoneIsNothing DEF NoLink, Link
  <1>6. link'[e] = l /\ \A f \in edges : f # e /\ link'[f] = link[f]
    BY <1>2, <1>3, <1>5
  <1>7. Acyclic'
    <2>1. l.source \in Vertex /\ l.target \in Vertex
      BY DEF Link
    <2>2. ~ReachesIn(edges, link, l.target, l.source)
      BY <1>4, ReachesIsReachesIn
    <2>3. \A x \in Vertex : ~ReachesIn(edges, link, x, x)
      BY ReachesIsReachesIn DEF SInv, Acyclic
    <2>4. PICK L : L = link
      OBVIOUS
    <2>5. PICK M : M = link'
      OBVIOUS
    <2>6. PICK E : E = edges
      OBVIOUS
    <2>7. \A x \in Vertex : ~ReachesIn(E \union {e}, M, x, x)
      BY <1>4, <1>6, <2>1, <2>2, <2>3, <2>4, <2>5, <2>6, AnotherEdge
    <2>8. \A x \in Vertex : ~ReachesIn(edges', link', x, x)
      BY <1>2, <2>5, <2>6, <2>7
    <2>9. QED
      BY <2>8, ReachesIsReachesIn DEF Acyclic
  <1>8. Unambiguous'
    BY <1>2, <1>4, <1>6 DEF SInv, Unambiguous, SameRelation
  <1>9. QED
    BY <1>2, <1>7, <1>8, IdleIsFine, NothingToCheck, AloneKeeps

\* Deletes check nothing and only take away.
LEMMA DeletesShrink ==
    ASSUME IInv, NEW p \in Writer,
           \/ UndoVertex(p) \/ EditVertex(p) \/ Crash(p)
           \/ \E v \in Vertex : BeginDeleteVertex(p, v)
           \/ \E e \in Edge : \/ BeginDeleteEdge(p, e)
                              \/ PickIncoming(p, e) \/ PickOutgoing(p, e)
           \/ ReadIncoming(p) \/ ReadOutgoing(p) \/ CountTarget(p)
           \/ RemoveEdge(p) \/ RemoveEdgeFails(p) \/ RemoveDetails(p) \/ RemoveVertex(p)
    PROVE  /\ edges' \subseteq edges /\ link' = link /\ details' \subseteq details
           /\ \E s : /\ Goto(p, s)
                     /\ s.pc \in {"idle", "undo", "edit", "walk", "count", "remove"}
  <1>1. proc[p] \in ProcState
    BY ProcFacts
  <1>2. Idle.pc = "idle" /\ Idle \in ProcState
    BY IdleIsFine
  <1>3. \A f : Walking(p, f) => proc[p].pc = "walk"
    BY DEF Walking
  <1>4. \A f : WithTop(p, f).pc = proc[p].pc
    BY <1>1 DEF WithTop, ProcState
  <1>5. \A s \in ProcState : Resume(s).pc \in {"idle", "walk"}
    BY <1>2 DEF Resume, ProcState
  <1>6. \A f, c, e : [WithTop(p, f) EXCEPT !.pc = c, !.edge = e].pc = c
    BY <1>1 DEF WithTop, ProcState
  <1>7. CASE UndoVertex(p) \/ EditVertex(p) \/ Crash(p)
    BY <1>2, <1>7 DEF UndoVertex, EditVertex, Crash
  <1>8. CASE \E v \in Vertex : BeginDeleteVertex(p, v)
    <2>1. PICK v \in Vertex : BeginDeleteVertex(p, v)
      BY <1>8
    <2>2. [Idle EXCEPT !.pc = "walk", !.stack = <<Call(v, None)>>].pc = "walk"
      BY <1>2 DEF ProcState
    <2>3. QED
      BY <2>1, <2>2 DEF BeginDeleteVertex, StoreUntouched
  <1>9. ASSUME NEW e \in Edge,
               BeginDeleteEdge(p, e) \/ PickIncoming(p, e) \/ PickOutgoing(p, e)
        PROVE  /\ edges' \subseteq edges /\ link' = link /\ details' \subseteq details
               /\ \E s : /\ Goto(p, s)
                         /\ s.pc \in {"idle", "undo", "edit", "walk", "count", "remove"}
    <2>1. CASE BeginDeleteEdge(p, e)
      <3>1. \A c : [Idle EXCEPT !.pc = c, !.edge = e].pc = c
        BY <1>2 DEF ProcState
      <3>2. QED
        BY <2>1, <3>1 DEF BeginDeleteEdge, StoreUntouched
    <2>2. PICK t : t = Without(p, e)
      OBVIOUS
    <2>3. CASE PickIncoming(p, e) /\ link[e].source \in There
      <3>1. PICK s : s = [t EXCEPT !.pc = "remove", !.edge = e]
        OBVIOUS
      <3>2. s.pc = "remove"
        BY <1>6, <2>2, <3>1 DEF Without
      <3>3. Goto(p, s) /\ StoreUntouched
        BY <2>2, <2>3, <3>1 DEF PickIncoming
      <3>4. QED
        BY <3>2, <3>3 DEF StoreUntouched
    <2>4. CASE PickIncoming(p, e) /\ link[e].source \notin There
      <3>1. t.pc = "walk"
        BY <1>3, <1>4, <2>2, <2>4 DEF PickIncoming, Without
      <3>2. Goto(p, t) /\ StoreUntouched
        BY <2>2, <2>4 DEF PickIncoming
      <3>3. QED
        BY <3>1, <3>2 DEF StoreUntouched
    <2>5. CASE PickOutgoing(p, e)
      <3>1. PICK c \in {"count", "remove"} :
                 c = IF link[e].name \in Cascade THEN "count" ELSE "remove"
        OBVIOUS
      <3>2. PICK s : s = [t EXCEPT !.pc = c, !.edge = e]
        OBVIOUS
      <3>3. s.pc = c
        BY <1>6, <2>2, <3>2 DEF Without
      <3>4. Goto(p, s) /\ StoreUntouched
        BY <2>2, <2>5, <3>1, <3>2 DEF PickOutgoing
      <3>5. QED
        BY <3>3, <3>4 DEF StoreUntouched
    <2>6. QED
      BY <1>9, <2>1, <2>3, <2>4, <2>5
  <1>10. CASE ReadIncoming(p) \/ ReadOutgoing(p)
    BY <1>3, <1>4, <1>10 DEF ReadIncoming, ReadOutgoing, StoreUntouched
  <1>11. CASE RemoveDetails(p)
    BY <1>3, <1>4, <1>11 DEF RemoveDetails
  <1>12. CASE CountTarget(p)
    <2>1. PICK e : e = proc[p].edge
      OBVIOUS
    <2>2. PICK s : s = [At(p, "walk") EXCEPT !.stack = Append(@, Call(link[e].target, e)),
                                             !.edge = None]
      OBVIOUS
    <2>3. PICK t : t = At(p, "remove")
      OBVIOUS
    <2>4. PICK u : u = Resume(proc[p])
      OBVIOUS
    <2>5. s.pc = "walk" /\ t.pc = "remove" /\ u.pc \in {"idle", "walk"}
      BY <1>1, <1>5, <2>2, <2>3, <2>4 DEF At, ProcState
    <2>6. (Goto(p, s) \/ Goto(p, t) \/ Goto(p, u)) /\ StoreUntouched
      BY <1>12, <2>1, <2>2, <2>3, <2>4 DEF CountTarget
    <2>7. QED
      BY <2>5, <2>6 DEF StoreUntouched
  <1>13. CASE RemoveEdge(p) \/ RemoveEdgeFails(p)
    <2>1. \A R \in SUBSET Edge : [proc[p] EXCEPT !.removed = R] \in ProcState
      BY <1>1 DEF ProcState
    <2>2. CASE RemoveEdge(p)
      <3>1. proc[p].edge \in Edge /\ proc[p].removed \in SUBSET Edge
        BY <1>1, <2>2, ProcFacts DEF RemoveEdge, Sound, ProcState
      <3>2. PICK t : t = [proc[p] EXCEPT !.removed = @ \union {proc[p].edge}]
        OBVIOUS
      <3>3. t \in ProcState
        BY <1>1, <3>1, <3>2 DEF ProcState
      <3>4. Goto(p, Resume(t))
        BY <2>2, <3>2 DEF RemoveEdge
      <3>5. QED
        BY <1>5, <2>2, <3>3, <3>4 DEF RemoveEdge
    <2>3. CASE RemoveEdgeFails(p)
      BY <1>1, <1>5, <2>3 DEF RemoveEdgeFails
    <2>4. QED
      BY <1>13, <2>2, <2>3
  <1>14. CASE RemoveVertex(p)
    <2>1. \A t, e : [At(p, "remove") EXCEPT !.stack = t, !.edge = e].pc = "remove"
      BY <1>1 DEF At, ProcState
    <2>2. [At(p, "remove") EXCEPT !.stack = Front(@), !.edge = Top(p).via].pc = "remove"
      BY <2>1
    <2>3. QED
      BY <1>2, <1>14, <2>2 DEF RemoveVertex
  <1>15. QED
    BY <1>7, <1>8, <1>9, <1>10, <1>11, <1>12, <1>13, <1>14

LEMMA SerialNextKeeps ==
    ASSUME SInv, [SerialNext]_vars
    PROVE  SInv'
  <1>1. CASE UNCHANGED vars
    <2>1. IInv'
      BY <1>1, NextKeeps DEF Kept, SInv
    <2>2. Acyclic' /\ Unambiguous'
      BY <1>1, StaysAcyclic, StaysUnambiguous DEF SInv, vars
    <2>3. \A v, w : Reaches(v, w)' <=> Reaches(v, w)
      BY <1>1, ReachesIsReachesIn DEF vars
    <2>4. ASSUME NEW q \in Writer PROVE Checked(proc[q])'
      BY <1>1, <2>3 DEF SInv, Checked, KeyIsFree, SameRelation, There, vars
    <2>5. OneAtATime'
      BY <1>1 DEF SInv, OneAtATime, vars
    <2>6. QED
      BY <2>1, <2>2, <2>4, <2>5 DEF SInv
  <1>2. ASSUME NEW p \in Writer, Alone(p), Step(p) PROVE SInv'
    <2>1. IInv /\ IInv'
      BY <1>2, NextKeeps DEF Kept, SInv, Next
    <2>2. ASSUME edges' \subseteq edges, link' = link, details' \subseteq details,
                 NEW s, Goto(p, s),
                 s.pc \in {"idle", "undo", "edit", "walk", "count", "remove"}
          PROVE  SInv'
      BY <1>2, <2>1, <2>2, NothingToCheck, ShrinkKeeps
    <2>3. CASE BeginRequest(p)
      BY <1>2, <2>1, <2>2, <2>3, AddVertexChecks, EditVertexChecks, BeginAddEdgeChecks,
         DeletesShrink DEF BeginRequest
    <2>4. CASE Continue(p)
      BY <1>2, <2>1, <2>2, <2>4, AddVertexChecks, InsertDetailsChecks, EditVertexChecks,
         ChecksCheck, InsertEdgeChecks, DeletesShrink DEF Continue
    <2>5. CASE Crash(p)
      BY <2>1, <2>2, <2>5, DeletesShrink
    <2>6. QED
      BY <1>2, <2>3, <2>4, <2>5 DEF Step
  <1>3. QED
    BY <1>1, <1>2 DEF SerialNext

LEMMA SerialInvariance == SerialSpec => []SInv
  <1>1. Init => SInv
    <2> SUFFICES ASSUME Init PROVE SInv
      OBVIOUS
    <2>1. \A p \in Writer : Checked(proc[p])
      BY IdleIsFine DEF Init, Checked
    <2>2. Acyclic
      <3>1. \A v \in Vertex : {} \in SUBSET Vertex /\ Successors(v) \subseteq {} /\ Closed({})
        BY DEF Init, Successors, Closed
      <3>2. QED
        BY <3>1 DEF Acyclic, Reaches
    <2>3. Unambiguous
      BY SeedHasItsKeys DEF Init, Unambiguous
    <2>4. QED
      BY <2>1, <2>2, <2>3, InitIsFine, IdleIsFine DEF Init, SInv, OneAtATime
  <1>2. SInv /\ [SerialNext]_vars => SInv'
    BY SerialNextKeeps
  <1>3. QED
    BY <1>1, <1>2, PTL DEF SerialSpec

(* With no overlap no edge closes a cycle, whatever else is added, edited   *)
(* and deleted ("Check for cycles").                                       *)
THEOREM NoCycles == SerialSpec => []Acyclic
  <1>1. SInv => Acyclic
    BY DEF SInv
  <1>2. QED
    BY <1>1, SerialInvariance, PTL

(* With no overlap two edges never say the same, a one-to-one relation has  *)
(* one target, and a unique field one owner.                               *)
THEOREM NothingTwice == SerialSpec => []Unambiguous
  <1>1. SInv => Unambiguous
    BY DEF SInv
  <1>2. QED
    BY <1>1, SerialInvariance, PTL

-----------------------------------------------------------------------------
(* Walks that no other writer overlaps.                                    *)

\* The lists of a walk name edges that are there or that it has removed
\* itself, and nothing but the edge the walk came along leads to a vertex.
Spares(t, R) ==
    /\ \A i \in 1 .. Len(t) : t[i].todo \ R \subseteq edges
    /\ \A i \in 2 .. Len(t) : Incoming(t[i].vertex) \subseteq {t[i].via}

Walks(s) ==
    /\ s.pc \notin {"walk", "count", "remove"} => s.stack = <<>>
    /\ s.pc = "count" => s.edge \in edges
    /\ Spares(s.stack, s.removed)

WInv ==
    /\ IInv
    /\ IsFiniteSet(edges)
    /\ \A p \in Writer : Walks(proc[p])

LEMMA NoStackSpares ==
    ASSUME NEW R
    PROVE  Spares(<<>>, R) /\ Spares(<<>>, R)'
  <1>1. Len(<<>>) = 0
    BY EmptySeq
  <1>2. QED
    BY <1>1 DEF Spares

\* What is left to show of a step of p, which leaves p with s.
LEMMA AloneWalks ==
    ASSUME WInv, IInv', NEW p \in Writer, Alone(p), NEW s, Goto(p, s),
           Walks(s)', IsFiniteSet(edges')
    PROVE  WInv'
  <1>1. proc'[p] = s /\ \A q \in Writer : q # p => proc'[q] = proc[q]
    BY DEF WInv, IInv, ProcOK, Goto
  <1>2. ASSUME NEW q \in Writer PROVE Walks(proc[q])'
    <2>1. CASE q = p
      BY <1>1, <2>1 DEF Walks, Spares, Incoming
    <2>2. CASE q # p
      <3>1. proc[q].pc = "idle" /\ proc[q].stack = <<>>
        BY <2>2 DEF Alone, WInv, Walks
      <3>2. Spares(proc[q].stack, proc[q].removed)'
        BY <1>1, <2>2, <3>1, NoStackSpares DEF Spares, Incoming
      <3>3. QED
        BY <1>1, <2>2, <3>1, <3>2 DEF Walks
    <2>3. QED
      BY <2>1, <2>2
  <1>3. QED
    BY <1>2 DEF WInv

\* A writer that leaves a stack, or has none.
LEMMA RestWalks ==
    ASSUME WInv, IInv', NEW p \in Writer, Alone(p), NEW s, Goto(p, s),
           s.stack = <<>>, s.pc # "count", IsFiniteSet(edges')
    PROVE  WInv'
  <1>1. Walks(s)'
    BY NoStackSpares DEF Walks, Spares, Incoming
  <1>2. QED
    BY <1>1, AloneWalks

\* A walk in whose hands edges become fewer only by its own doing.
LEMMA GoesOnWalking ==
    ASSUME WInv, IInv', NEW p \in Writer, Alone(p), NEW s, Goto(p, s),
           s.pc \in {"walk", "count", "remove"}, s.pc = "count" => s.edge \in edges,
           UNCHANGED <<edges, link>>, Spares(s.stack, s.removed)
    PROVE  WInv'
  <1>1. Walks(s)'
    BY DEF Walks, Spares, Incoming
  <1>2. QED
    BY <1>1, AloneWalks DEF WInv

\* addVertex(), editVertex() and addEdge() walk nowhere.
LEMMA WritesWalk ==
    ASSUME WInv, IInv', NEW p \in Writer, Alone(p),
           \/ proc[p].pc = "idle" /\ \E v \in Vertex : BeginAddVertex(p, v)
                                                  \/ BeginEditVertex(p, v)
           \/ proc[p].pc = "idle" /\ \E v, w \in Vertex, n \in Name : BeginAddEdge(p, v, w, n)
           \/ InsertVertex(p) \/ InsertDetails(p) \/ UndoVertex(p)
           \/ UpsertDetails(p) \/ EditVertex(p)
           \/ CheckCycle(p) \/ CheckDuplicate(p) \/ CheckSingle(p)
           \/ \E e \in Edge : InsertEdge(p, e)
    PROVE  WInv'
  <1>1. proc[p] \in ProcState /\ Idle \in ProcState /\ Idle.stack = <<>> /\ Idle.pc = "idle"
    BY ProcFacts, IdleIsFine DEF WInv
  <1>2. \A v : [Idle EXCEPT !.pc = "vertex", !.vertex = v].stack = <<>>
              /\ [Idle EXCEPT !.pc = "vertex", !.vertex = v].pc = "vertex"
              /\ [Idle EXCEPT !.pc = "upsert", !.vertex = v].stack = <<>>
              /\ [Idle EXCEPT !.pc = "upsert", !.vertex = v].pc = "upsert"
              /\ [Idle EXCEPT !.pc = "cycle", !.link = v].stack = <<>>
              /\ [Idle EXCEPT !.pc = "cycle", !.link = v].pc = "cycle"
    BY <1>1 DEF ProcState
  <1>3. ASSUME NEW c \in {"details", "undo", "edit", "duplicate", "single", "edge"},
               proc[p].pc \notin {"walk", "count", "remove"}
        PROVE  At(p, c).stack = <<>> /\ At(p, c).pc = c
    <2>1. proc[p].stack = <<>>
      BY <1>3 DEF WInv, Walks
    <2>2. c \in PC
      BY DEF PC
    <2>3. QED
      BY <1>1, <2>1, <2>2, MovesOn DEF At
  <1>4. IsFiniteSet(edges')
    <2>1. CASE \E e \in Edge : InsertEdge(p, e)
      BY <2>1, FS_AddElement DEF InsertEdge, WInv
    <2>2. CASE edges' = edges
      BY <2>2 DEF WInv
    <2>3. QED
      BY <2>1, <2>2 DEF BeginAddVertex, BeginEditVertex, BeginAddEdge, InsertVertex,
         InsertDetails, UndoVertex, UpsertDetails, EditVertex, CheckCycle,
         CheckDuplicate, CheckSingle, StoreUntouched
  <1>5. \E s : Goto(p, s) /\ s.stack = <<>> /\ s.pc # "count"
    <2>1. CASE \E v \in Vertex : BeginAddVertex(p, v) \/ BeginEditVertex(p, v)
      BY <1>2, <2>1 DEF BeginAddVertex, BeginEditVertex
    <2>2. CASE \E v, w \in Vertex, n \in Name : BeginAddEdge(p, v, w, n)
      <3>1. PICK l : Goto(p, [Idle EXCEPT !.pc = "cycle", !.link = l])
        BY <2>2 DEF BeginAddEdge
      <3>2. QED
        BY <1>2, <3>1
    <2>3. CASE InsertVertex(p) \/ InsertDetails(p) \/ UpsertDetails(p)
      BY <1>1, <1>3, <2>3 DEF InsertVertex, InsertDetails, UpsertDetails
    <2>4. CASE UndoVertex(p) \/ EditVertex(p) \/ \E e \in Edge : InsertEdge(p, e)
      BY <1>1, <2>4 DEF UndoVertex, EditVertex, InsertEdge
    <2>5. CASE CheckCycle(p)
      BY <1>1, <1>3, <2>5 DEF CheckCycle
    <2>6. CASE CheckDuplicate(p)
      BY <1>1, <1>3, <2>6 DEF CheckDuplicate
    <2>7. CASE CheckSingle(p)
      BY <1>1, <1>3, <2>7 DEF CheckSingle
    <2>8. QED
      BY <2>1, <2>2, <2>3, <2>4, <2>5, <2>6, <2>7
  <1>6. QED
    BY <1>4, <1>5, RestWalks

LEMMA BeginDeleteWalks ==
    ASSUME WInv, IInv', NEW p \in Writer, Alone(p),
           \/ \E v \in Vertex : BeginDeleteVertex(p, v)
           \/ \E e \in Edge : BeginDeleteEdge(p, e)
    PROVE  WInv'
  <1>1. Idle \in ProcState /\ Idle.stack = <<>>
    BY IdleIsFine
  <1>2. CASE \E v \in Vertex : BeginDeleteVertex(p, v)
    <2>1. PICK v \in Vertex : BeginDeleteVertex(p, v)
      BY <1>2
    <2>2. PICK f : f = Call(v, None)
      OBVIOUS
    <2>3. PICK t : t = <<f>>
      OBVIOUS
    <2>4. t[1].todo = {} /\ Len(t) = 1
      BY <2>2, <2>3 DEF Call
    <2>5. PICK s : s = [Idle EXCEPT !.pc = "walk", !.stack = t]
      OBVIOUS
    <2>6. s.pc = "walk" /\ s.stack = t
      BY <1>1, <2>5 DEF ProcState
    <2>7. Spares(t, s.removed)
      BY <2>4 DEF Spares
    <2>8. Goto(p, s) /\ UNCHANGED <<edges, link>>
      BY <2>1, <2>2, <2>3, <2>5 DEF BeginDeleteVertex, StoreUntouched
    <2>9. QED
      BY <2>6, <2>7, <2>8, GoesOnWalking
  <1>3. CASE \E e \in Edge : BeginDeleteEdge(p, e)
    <2>1. PICK e \in Edge : BeginDeleteEdge(p, e)
      BY <1>3
    <2>2. PICK c \in {"count", "remove"} :
               c = IF link[e].name \in Cascade THEN "count" ELSE "remove"
      OBVIOUS
    <2>3. PICK s : s = [Idle EXCEPT !.pc = c, !.edge = e]
      OBVIOUS
    <2>4. s.pc = c /\ s.edge = e /\ s.stack = <<>>
      BY <1>1, <2>3 DEF ProcState
    <2>5. Goto(p, s) /\ e \in edges /\ UNCHANGED <<edges, link>>
      BY <2>1, <2>2, <2>3 DEF BeginDeleteEdge, StoreUntouched
    <2>6. QED
      BY <2>4, <2>5, NoStackSpares, GoesOnWalking
  <1>4. QED
    BY <1>2, <1>3

\* The innermost call goes on as frame f, with a list of edges that are there.
LEMMA WithTopSpares ==
    ASSUME WInv, NEW p \in Writer, proc[p].pc = "walk", NEW f \in Frame,
           f.vertex = Top(p).vertex, f.via = Top(p).via, f.todo \ proc[p].removed \subseteq edges
    PROVE  /\ WithTop(p, f) \in ProcState
           /\ WithTop(p, f).pc = "walk"
           /\ Spares(WithTop(p, f).stack, WithTop(p, f).removed)
  <1>1. proc[p] \in ProcState /\ Sound(proc[p]) /\ Walks(proc[p])
    BY ProcFacts DEF WInv
  <1>2. PICK t : t = proc[p].stack
    OBVIOUS
  <1>3. t \in Seq(Frame) /\ t # <<>> /\ Spares(t, proc[p].removed)
    BY <1>1, <1>2 DEF Sound, ProcState, Walks
  <1>4. PICK u : u = [t EXCEPT ![Len(t)] = f]
    OBVIOUS
  <1>5. /\ Len(u) = Len(t) /\ u[Len(t)] = f /\ u \in Seq(Frame)
        /\ Len(t) \in Nat \ {0}
        /\ \A i \in 1 .. Len(t) : i # Len(t) => u[i] = t[i]
    BY <1>3, <1>4, TopFacts
  <1>6. WithTop(p, f) = [proc[p] EXCEPT !.stack = u]
    BY <1>2, <1>4 DEF WithTop
  <1>7. /\ [proc[p] EXCEPT !.stack = u] \in ProcState
        /\ [proc[p] EXCEPT !.stack = u].pc = "walk"
        /\ [proc[p] EXCEPT !.stack = u].stack = u
        /\ [proc[p] EXCEPT !.stack = u].removed = proc[p].removed
    BY <1>1, <1>5 DEF ProcState
  <1>8. f.vertex = t[Len(t)].vertex /\ f.via = t[Len(t)].via
    BY <1>2 DEF Top
  <1>9. Spares(u, proc[p].removed)
    <2>1. ASSUME NEW i \in 1 .. Len(u) PROVE u[i].todo \ proc[p].removed \subseteq edges
      BY <1>3, <1>5 DEF Spares
    <2>2. ASSUME NEW i \in 2 .. Len(u) PROVE Incoming(u[i].vertex) \subseteq {u[i].via}
      <3>1. i \in 1 .. Len(t) /\ i \in 2 .. Len(t)
        BY <1>5
      <3>2. u[i].vertex = t[i].vertex /\ u[i].via = t[i].via
        BY <1>5, <1>8, <3>1
      <3>3. QED
        BY <1>3, <3>1, <3>2 DEF Spares
    <2>3. QED
      BY <2>1, <2>2 DEF Spares
  <1>10. QED
    BY <1>6, <1>7, <1>9

LEMMA TopSpares ==
    ASSUME WInv, NEW p \in Writer, proc[p].pc = "walk"
    PROVE  Top(p) \in Frame /\ Left(p) \subseteq edges
  <1>1. proc[p] \in ProcState /\ Sound(proc[p]) /\ Walks(proc[p])
    BY ProcFacts DEF WInv
  <1>2. proc[p].stack \in Seq(Frame) /\ proc[p].stack # <<>>
    BY <1>1 DEF Sound, ProcState
  <1>3. Top(p) \in Frame /\ Len(proc[p].stack) \in 1 .. Len(proc[p].stack)
    BY <1>2, TopFacts DEF Top
  <1>4. QED
    BY <1>1, <1>3 DEF Walks, Spares, Left, Top

\* The reads of a walk, and the end of its loops.
LEMMA ReadsWalk ==
    ASSUME WInv, IInv', NEW p \in Writer, Alone(p),
           ReadIncoming(p) \/ ReadOutgoing(p) \/ RemoveDetails(p)
    PROVE  WInv'
  <1>1. proc[p].pc = "walk" /\ UNCHANGED <<edges, link>>
    BY DEF ReadIncoming, ReadOutgoing, RemoveDetails, Walking, StoreUntouched
  <1>2. Top(p) \in Frame /\ Left(p) \subseteq edges /\ edges \subseteq Edge
    BY <1>1, TopSpares DEF WInv, IInv, StoreOK
  <1>3. PICK f \in Frame :
             /\ Goto(p, WithTop(p, f))
             /\ f.vertex = Top(p).vertex /\ f.via = Top(p).via
             /\ f.todo \ proc[p].removed \subseteq edges
    <2>1. CASE ReadIncoming(p)
      <3>1. PICK f : f = [Top(p) EXCEPT !.stage = "in", !.todo = Incoming(Top(p).vertex)]
        OBVIOUS
      <3>2. /\ f \in Frame /\ f.vertex = Top(p).vertex /\ f.via = Top(p).via
            /\ f.todo \subseteq edges
        BY <1>2, <3>1 DEF Frame, Stage, Incoming
      <3>3. QED
        BY <2>1, <3>1, <3>2 DEF ReadIncoming
    <2>2. CASE ReadOutgoing(p)
      <3>1. PICK f : f = [Top(p) EXCEPT !.stage = "out", !.todo = OutgoingOf(Top(p).vertex)]
        OBVIOUS
      <3>2. /\ f \in Frame /\ f.vertex = Top(p).vertex /\ f.via = Top(p).via
            /\ f.todo \subseteq edges
        BY <1>2, <3>1 DEF Frame, Stage, Outgoing, OutgoingOf
      <3>3. QED
        BY <2>2, <3>1, <3>2 DEF ReadOutgoing
    <2>3. CASE RemoveDetails(p)
      <3>1. PICK f : f = [Top(p) EXCEPT !.stage = "last"]
        OBVIOUS
      <3>2. /\ f \in Frame /\ f.vertex = Top(p).vertex /\ f.via = Top(p).via
            /\ f.todo = Top(p).todo
        BY <1>2, <3>1 DEF Frame, Stage
      <3>3. QED
        BY <1>2, <2>3, <3>1, <3>2 DEF RemoveDetails, Left
    <2>4. QED
      BY <2>1, <2>2, <2>3
  <1>4. QED
    BY <1>1, <1>3, WithTopSpares, GoesOnWalking

LEMMA PicksWalk ==
    ASSUME WInv, IInv', NEW p \in Writer, Alone(p), NEW e \in Edge,
           PickIncoming(p, e) \/ PickOutgoing(p, e)
    PROVE  WInv'
  <1>1. /\ proc[p].pc = "walk" /\ UNCHANGED <<edges, link>>
        /\ e \in Left(p)
    BY DEF PickIncoming, PickOutgoing, Walking, StoreUntouched
  <1>2. Top(p) \in Frame /\ Left(p) \subseteq edges
    BY <1>1, TopSpares
  <1>3. PICK f : f = [Top(p) EXCEPT !.todo = @ \ {e}]
    OBVIOUS
  <1>4. /\ f \in Frame /\ f.vertex = Top(p).vertex /\ f.via = Top(p).via
        /\ f.todo \ proc[p].removed \subseteq edges
    BY <1>2, <1>3 DEF Frame, Left
  <1>5. PICK t : t = Without(p, e)
    OBVIOUS
  <1>6. t \in ProcState /\ t.pc = "walk" /\ Spares(t.stack, t.removed)
    BY <1>1, <1>3, <1>4, <1>5, WithTopSpares DEF Without
  <1>7. CASE Goto(p, t)
    BY <1>1, <1>6, <1>7, GoesOnWalking
  <1>8. ASSUME NEW c \in {"count", "remove"}, Goto(p, [t EXCEPT !.pc = c, !.edge = e])
        PROVE  WInv'
    <2>1. PICK s : s = [t EXCEPT !.pc = c, !.edge = e]
      OBVIOUS
    <2>2. s.pc = c /\ s.edge = e /\ s.stack = t.stack /\ s.removed = t.removed
      BY <1>6, <2>1 DEF ProcState
    <2>3. e \in edges
      BY <1>1, <1>2
    <2>4. QED
      BY <1>1, <1>6, <1>8, <2>1, <2>2, <2>3, GoesOnWalking
  <1>9. CASE PickIncoming(p, e)
    BY <1>5, <1>7, <1>8, <1>9 DEF PickIncoming
  <1>10. CASE PickOutgoing(p, e)
    BY <1>5, <1>8, <1>10 DEF PickOutgoing
  <1>11. QED
    BY <1>9, <1>10

\* The edge a walk goes along is the only one into the vertex.
LEMMA CountTargetWalks ==
    ASSUME WInv, IInv', NEW p \in Writer, Alone(p), CountTarget(p)
    PROVE  WInv'
  <1>1. /\ proc[p] \in ProcState /\ Sound(proc[p]) /\ Walks(proc[p])
        /\ proc[p].pc = "count" /\ UNCHANGED <<edges, link>>
        /\ Spares(proc[p].stack, proc[p].removed)
    BY ProcFacts DEF WInv, Walks, CountTarget, StoreUntouched
  <1>2. PICK e \in edges : e = proc[p].edge
    BY <1>1 DEF Walks
  <1>3. PICK v : v = link[e].target
    OBVIOUS
  <1>4. CASE Goto(p, At(p, "remove"))
    <2>1. PICK s : s = At(p, "remove")
      OBVIOUS
    <2>2. s.pc = "remove" /\ s.stack = proc[p].stack /\ s.removed = proc[p].removed
      BY <1>1, <2>1 DEF At, ProcState
    <2>3. QED
      BY <1>1, <1>4, <2>1, <2>2, GoesOnWalking
  <1>5. CASE /\ OnlyReference(v)
             /\ MayDelete(v)
             /\ Goto(p, [At(p, "walk") EXCEPT !.stack = Append(@, Call(v, e)), !.edge = None])
    <2>1. Incoming(v) \subseteq {e}
      <3>1. Incoming(v) \subseteq edges /\ e \in Incoming(v)
        BY <1>3 DEF Incoming
      <3>2. IsFiniteSet(Incoming(v))
        BY <3>1, FS_Subset DEF WInv
      <3>3. PICK x : Incoming(v) = {x}
        BY <1>5, <3>2, FS_Singleton DEF OnlyReference
      <3>4. QED
        BY <3>1, <3>3
    <2>2. PICK f : f = Call(v, e)
      OBVIOUS
    <2>3. f \in Frame /\ f.vertex = v /\ f.via = e /\ f.todo = {}
      BY <1>5, <2>2 DEF Call, Frame, Stage, MayDelete, There, WInv, IInv, StoreOK
    <2>4. PICK r : r = proc[p].stack
      OBVIOUS
    <2>5. PICK t : t = Append(r, f)
      OBVIOUS
    <2>6. /\ r \in Seq(Frame) /\ Len(r) \in Nat /\ Len(t) = Len(r) + 1
          /\ \A i \in 1 .. Len(r) : t[i] = r[i]
          /\ t[Len(r) + 1] = f
      BY <1>1, <2>3, <2>4, <2>5, PushFacts DEF ProcState
    <2>7. Spares(t, proc[p].removed)
      <3>1. ASSUME NEW i \in 1 .. Len(t) PROVE t[i].todo \ proc[p].removed \subseteq edges
        <4>1. i = Len(r) + 1 \/ i \in 1 .. Len(r)
          BY <2>6
        <4>2. QED
          BY <1>1, <2>3, <2>4, <2>6, <4>1 DEF Spares
      <3>2. ASSUME NEW i \in 2 .. Len(t) PROVE Incoming(t[i].vertex) \subseteq {t[i].via}
        <4>1. CASE i = Len(r) + 1
          BY <2>1, <2>3, <2>6, <4>1
        <4>2. CASE i # Len(r) + 1
          <5>1. i \in 2 .. Len(r) /\ t[i] = r[i]
            BY <2>6, <4>2
          <5>2. QED
            BY <1>1, <2>4, <5>1 DEF Spares
        <4>3. QED
          BY <4>1, <4>2
      <3>3. QED
        BY <3>1, <3>2 DEF Spares
    <2>8. PICK s : s = [At(p, "walk") EXCEPT !.stack = Append(@, f), !.edge = None]
      OBVIOUS
    <2>9. s = [proc[p] EXCEPT !.pc = "walk", !.stack = t, !.edge = None]
      BY <1>1, <2>4, <2>5, <2>8 DEF At, ProcState
    <2>10. s.pc = "walk" /\ s.stack = t /\ s.removed = proc[p].removed
      BY <1>1, <2>9 DEF ProcState
    <2>11. QED
      BY <1>1, <1>5, <2>2, <2>7, <2>8, <2>10, GoesOnWalking
  <1>6. CASE Goto(p, Resume(proc[p]))
    <2>1. CASE proc[p].stack = <<>>
      BY <1>1, <1>6, <2>1, IdleIsFine, RestWalks DEF Resume, WInv
    <2>2. CASE proc[p].stack # <<>>
      <3>1. PICK s : s = [proc[p] EXCEPT !.pc = "walk", !.edge = None]
        OBVIOUS
      <3>2. s.pc = "walk" /\ s.stack = proc[p].stack /\ s.removed = proc[p].removed
        BY <1>1, <3>1 DEF ProcState
      <3>3. Goto(p, s)
        BY <1>6, <2>2, <3>1 DEF Resume
      <3>4. QED
        BY <1>1, <3>2, <3>3, GoesOnWalking
    <2>3. QED
      BY <2>1, <2>2
  <1>7. QED
    BY <1>2, <1>3, <1>4, <1>5, <1>6 DEF CountTarget

\* An edge that is removed, or that MongoDB refuses to remove.
LEMMA RemovesWalk ==
    ASSUME WInv, IInv', NEW p \in Writer, Alone(p), RemoveEdge(p) \/ RemoveEdgeFails(p)
    PROVE  WInv'
  <1>1. /\ proc[p] \in ProcState /\ Spares(proc[p].stack, proc[p].removed)
        /\ proc[p].pc = "remove" /\ proc[p].edge \in Edge /\ link' = link
    BY ProcFacts DEF WInv, Walks, Sound, RemoveEdge, RemoveEdgeFails
  <1>2. PICK R \in SUBSET Edge :
             /\ Goto(p, Resume([proc[p] EXCEPT !.removed = R]))
             /\ edges' \subseteq edges
             /\ edges \ R \subseteq edges'
             /\ proc[p].removed \subseteq R
    <2>1. CASE RemoveEdge(p)
      <3>1. PICK R : R = proc[p].removed \union {proc[p].edge}
        OBVIOUS
      <3>2. R \in SUBSET Edge
        BY <1>1, <3>1 DEF ProcState
      <3>3. [proc[p] EXCEPT !.removed = @ \union {proc[p].edge}]
            = [proc[p] EXCEPT !.removed = R]
        BY <1>1, <3>1 DEF ProcState
      <3>4. QED
        BY <2>1, <3>1, <3>2, <3>3 DEF RemoveEdge
    <2>2. CASE RemoveEdgeFails(p)
      <3>1. proc[p].removed \in SUBSET Edge
            /\ proc[p] = [proc[p] EXCEPT !.removed = proc[p].removed]
        BY <1>1 DEF ProcState
      <3>2. QED
        BY <2>2, <3>1 DEF RemoveEdgeFails
    <2>3. QED
      BY <2>1, <2>2
  <1>3. IsFiniteSet(edges')
    BY <1>2, FS_Subset DEF WInv
  <1>4. PICK t \in ProcState : t = [proc[p] EXCEPT !.removed = R]
    BY <1>1 DEF ProcState
  <1>5. t.stack = proc[p].stack /\ t.removed = R
    BY <1>1, <1>4 DEF ProcState
  <1>6. CASE t.stack = <<>>
    BY <1>2, <1>3, <1>4, <1>6, IdleIsFine, RestWalks DEF Resume
  <1>7. CASE t.stack # <<>>
    <2>1. PICK s : s = [t EXCEPT !.pc = "walk", !.edge = None]
      OBVIOUS
    <2>2. s.pc = "walk" /\ s.stack = proc[p].stack /\ s.removed = R
      BY <1>4, <1>5, <2>1 DEF ProcState
    <2>3. Goto(p, s)
      BY <1>2, <1>4, <1>7, <2>1 DEF Resume
    <2>4. \A v : Incoming(v)' \subseteq Incoming(v)
      BY <1>1, <1>2 DEF Incoming
    <2>5. Spares(s.stack, s.removed)'
      BY <1>1, <1>2, <2>2, <2>4 DEF Spares
    <2>6. Walks(s)'
      BY <2>2, <2>5 DEF Walks
    <2>7. QED
      BY <1>3, <2>3, <2>6, AloneWalks
  <1>8. QED
    BY <1>6, <1>7

LEMMA RemoveVertexWalks ==
    ASSUME WInv, IInv', NEW p \in Writer, Alone(p), RemoveVertex(p)
    PROVE  WInv'
  <1>1. /\ proc[p] \in ProcState /\ Spares(proc[p].stack, proc[p].removed)
        /\ Sound(proc[p]) /\ proc[p].pc = "walk" /\ UNCHANGED <<edges, link>>
    BY ProcFacts DEF WInv, Walks, RemoveVertex, Walking
  <1>2. CASE Goto(p, Idle)
    BY <1>1, <1>2, IdleIsFine, RestWalks DEF WInv
  <1>3. CASE Goto(p, [At(p, "remove") EXCEPT !.stack = Front(@), !.edge = Top(p).via])
    <2>1. PICK r : r = proc[p].stack
      OBVIOUS
    <2>2. PICK t : t = Front(r)
      OBVIOUS
    <2>3. /\ t \in Seq(Frame) /\ Len(r) \in Nat /\ Len(t) = Len(r) - 1
          /\ \A i \in 1 .. Len(r) - 1 : t[i] = r[i]
      BY <1>1, <2>1, <2>2, FrontFacts DEF ProcState, Sound
    <2>4. Spares(t, proc[p].removed)
      <3>1. /\ \A i \in 1 .. Len(t) : i \in 1 .. Len(r) /\ t[i] = r[i]
            /\ \A i \in 2 .. Len(t) : i \in 2 .. Len(r) /\ t[i] = r[i]
        BY <2>3
      <3>2. QED
        BY <1>1, <2>1, <3>1 DEF Spares
    <2>5. PICK s : s = [At(p, "remove") EXCEPT !.stack = Front(@), !.edge = Top(p).via]
      OBVIOUS
    <2>6. s = [proc[p] EXCEPT !.pc = "remove", !.stack = t, !.edge = Top(p).via]
      BY <1>1, <2>1, <2>2, <2>5 DEF At, ProcState
    <2>7. s.pc = "remove" /\ s.stack = t /\ s.removed = proc[p].removed
      BY <1>1, <2>6 DEF ProcState
    <2>8. QED
      BY <1>1, <1>3, <2>4, <2>5, <2>7, GoesOnWalking
  <1>4. QED
    BY <1>2, <1>3 DEF RemoveVertex

LEMMA WalksInvariance == SerialSpec => []WInv
  <1>1. Init => WInv
    <2> SUFFICES ASSUME Init PROVE WInv
      OBVIOUS
    <2>1. \A p \in Writer : Walks(proc[p])
      BY IdleIsFine, NoStackSpares DEF Init, Walks
    <2>2. QED
      BY <2>1, InitIsFine, FS_EmptySet DEF Init, WInv
  <1>2. ASSUME WInv, NEW p \in Writer, Alone(p), Step(p) PROVE WInv'
    <2>1. IInv'
      BY <1>2, NextKeeps DEF Kept, WInv, Next
    <2>2. CASE BeginRequest(p)
      BY <1>2, <2>1, <2>2, WritesWalk, BeginDeleteWalks DEF BeginRequest
    <2>3. CASE Continue(p)
      BY <1>2, <2>1, <2>3, WritesWalk, ReadsWalk, PicksWalk, CountTargetWalks, RemovesWalk,
         RemoveVertexWalks DEF Continue
    <2>4. CASE Crash(p)
      BY <1>2, <2>1, <2>4, IdleIsFine, RestWalks DEF Crash, WInv
    <2>5. QED
      BY <1>2, <2>2, <2>3, <2>4 DEF Step
  <1>3. ASSUME WInv, UNCHANGED vars PROVE WInv'
    <2>1. IInv'
      BY <1>3, NextKeeps DEF Kept, WInv
    <2>2. QED
      BY <1>3, <2>1 DEF WInv, Walks, Spares, Incoming, vars
  <1>4. WInv /\ [SerialNext]_vars => WInv'
    BY <1>2, <1>3 DEF SerialNext
  <1>5. QED
    BY <1>1, <1>4, PTL DEF SerialSpec

(* With no overlap a cascade takes no vertex that anything but the edge it  *)
(* came along still refers to, however deep it goes and whatever deletes    *)
(* MongoDB refuses on the way.                                             *)
THEOREM SharedIsSpared == SerialSpec => []CascadeSparesShared
  <1>1. WInv => CascadeSparesShared
    BY DEF WInv, Walks, Spares, CascadeSparesShared
  <1>2. QED
    BY <1>1, WalksInvariance, PTL

-----------------------------------------------------------------------------
(* What a delete leaves, when no other writer overlaps it and none dies.   *)

EndsThere == \A e \in edges : link[e].source \in There /\ link[e].target \in There

\* The vertices have their collection documents, but for those in hand.
Paired ==
    \A v \in Vertex :
       v \in details <=> v \in There /\ \A p \in Writer : ~Answers(proc[p], v)

\* A call of deleteVertex() that has the edges H in hand: it has yet to come
\* to the edges there are.
Fits(f, H) ==
    /\ f.vertex \in There
    /\ f.stage = "in" => Incoming(f.vertex) \subseteq f.todo \union H
    /\ f.stage \in {"out", "last"} => Incoming(f.vertex) = {}
    /\ f.stage = "out" => Outgoing(f.vertex) \subseteq f.todo \union H
    /\ f.stage = "last" => Outgoing(f.vertex) = {}

\* Every call but the innermost waits for the edge it made the next one for.
Nested(t) ==
    /\ \A i \in 1 .. Len(t) - 1 :
         t[i].stage = "out" /\ t[i + 1].via \in Edge /\ Fits(t[i], {t[i + 1].via})
    /\ \A i, j \in 1 .. Len(t) : t[i].vertex = t[j].vertex => i = j

Hand(s) == IF s.pc \in {"count", "remove"} THEN {s.edge} ELSE {}

\* The innermost call f of a writer in state s.
Innermost(f, s) ==
    /\ Fits(f, Hand(s))
    /\ s.pc = "count" => f.stage = "out"
    /\ s.pc = "remove" => f.stage \in {"in", "out"}

Tidy(s) ==
    /\ s.pc = "idle" => s.removed = {}
    /\ s.removed \intersect edges = {}
    /\ s.pc \in {"details", "undo"} =>
          s.vertex \in There /\ Incoming(s.vertex) = {} /\ Outgoing(s.vertex) = {}
    /\ s.pc = "upsert" => s.vertex \in There
    /\ Nested(s.stack)
    /\ s.stack # <<>> => Innermost(s.stack[Len(s.stack)], s)

RInv ==
    /\ SInv
    /\ WInv
    /\ EndsThere
    /\ Paired
    /\ \A p \in Writer : Tidy(proc[p])

LEMMA NoStackNests == Nested(<<>>) /\ Nested(<<>>)'
  <1>1. Len(<<>>) = 0 /\ 0 - 1 = -1
    BY EmptySeq
  <1>2. 1 .. 0 = {} /\ 1 .. -1 = {}
    OBVIOUS
  <1>3. QED
    BY <1>1, <1>2 DEF Nested

\* A writer with no stack has little to keep tidy.
LEMMA NoStackTidy ==
    ASSUME NEW s, s.stack = <<>>, s.pc \notin {"details", "undo", "upsert"},
           s.pc = "idle" => s.removed = {}, s.removed \intersect edges' = {}
    PROVE  Tidy(s)'
  BY NoStackNests DEF Tidy, Nested, Fits

LEMMA IdleIsTidy == Tidy(Idle) /\ Tidy(Idle)'
  <1>1. Idle.pc = "idle" /\ Idle.stack = <<>> /\ Idle.removed = {}
    BY DEF Idle
  <1>2. QED
    BY <1>1, NoStackNests DEF Tidy, Nested, Fits

\* Of the collection documents only this writer could have any in hand.
LEMMA PairedAlone ==
    ASSUME RInv, NEW p \in Writer, Alone(p), NEW v \in Vertex
    PROVE  v \in details <=> v \in There /\ ~Answers(proc[p], v)
  <1>1. \A q \in Writer : q # p => ~Answers(proc[q], v)
    BY DEF Alone, Answers
  <1>2. QED
    BY <1>1 DEF RInv, Paired

\* What is left to show of a step of p, which leaves p with s.
LEMMA AloneTidies ==
    ASSUME RInv, SInv', WInv', NEW p \in Writer, Alone(p), NEW s, Goto(p, s),
           Tidy(s)', EndsThere',
           \A v \in Vertex : v \in details' <=> v \in There' /\ ~Answers(s, v)
    PROVE  RInv'
  <1>1. proc'[p] = s /\ \A q \in Writer : q # p => proc'[q] = proc[q]
    BY DEF RInv, SInv, IInv, ProcOK, Goto
  <1>2. Paired'
    <2>1. \A v : (\A q \in Writer : ~Answers(proc'[q], v)) <=> ~Answers(s, v)
      BY <1>1 DEF Alone, Answers
    <2>2. QED
      BY <2>1 DEF Paired, Answers
  <1>3. ASSUME NEW q \in Writer PROVE Tidy(proc[q])'
    <2>1. CASE q = p
      BY <1>1, <2>1 DEF Tidy, Nested, Fits, Incoming, Outgoing, Innermost, Hand
    <2>2. CASE q # p
      <3>1. PICK r : r = proc[q]
        OBVIOUS
      <3>2. r.pc = "idle" /\ r.stack = <<>> /\ r.removed = {}
        BY <2>2, <3>1 DEF Alone, RInv, WInv, Walks, Tidy
      <3>3. Tidy(r)'
        BY <3>2, NoStackTidy
      <3>4. proc'[q] = r
        BY <1>1, <2>2, <3>1
      <3>5. QED
        BY <3>3, <3>4 DEF Tidy, Nested, Fits, Incoming, Outgoing, Innermost, Hand
    <2>3. QED
      BY <2>1, <2>2
  <1>4. QED
    BY <1>2, <1>3 DEF RInv

\* The same, when nothing is written and no collection document is in hand.
LEMMA ReadTidies ==
    ASSUME RInv, SInv', WInv', NEW p \in Writer, Alone(p), NEW s, Goto(p, s),
           StoreUntouched, Tidy(s),
           \A v : ~Answers(proc[p], v), \A v : ~Answers(s, v)
    PROVE  RInv'
  <1>1. UNCHANGED <<status, details, edges, link>> /\ There' = There
    BY DEF StoreUntouched, There
  <1>2. \A v : Incoming(v)' = Incoming(v) /\ Outgoing(v)' = Outgoing(v)
    BY <1>1 DEF Incoming, Outgoing
  <1>3. Tidy(s)'
    BY <1>1, <1>2 DEF Tidy, Nested, Fits, Innermost, Hand
  <1>4. EndsThere'
    BY <1>1 DEF RInv, EndsThere
  <1>5. \A v \in Vertex : v \in details' <=> v \in There' /\ ~Answers(s, v)
    BY <1>1, PairedAlone
  <1>6. QED
    BY <1>3, <1>4, <1>5, AloneTidies

\* A writer with no stack and no vertex in hand, after a read.
LEMMA CheckTidies ==
    ASSUME RInv, SInv', WInv', NEW p \in Writer, Alone(p), NEW s, Goto(p, s),
           StoreUntouched, s.stack = <<>>,
           s.pc = "idle" => s.removed = {}, s.removed \intersect edges = {},
           s.pc \notin {"details", "undo", "walk"},
           s.pc = "upsert" => s.vertex \in There,
           proc[p].pc \notin {"details", "undo", "walk"}
    PROVE  RInv'
  <1>1. Tidy(s)
    BY NoStackNests DEF Tidy, Nested, Fits
  <1>2. QED
    BY <1>1, AnswersForNone, ReadTidies

\* addVertex(): until the vertex has its collection document no edge can
\* be at it, and it can be taken away again.
LEMMA AddVertexTidies ==
    ASSUME RInv, SInv', WInv', NEW p \in Writer, Alone(p),
           \/ proc[p].pc = "idle" /\ \E v \in Vertex : BeginAddVertex(p, v)
           \/ InsertVertex(p) \/ InsertDetails(p) \/ UndoVertex(p)
    PROVE  RInv'
  <1>1. /\ proc[p] \in ProcState /\ Sound(proc[p]) /\ Tidy(proc[p]) /\ Walks(proc[p])
        /\ StoreOK /\ EndsThere
        /\ \A u \in Vertex : u \in details <=> u \in There /\ ~Answers(proc[p], u)
    BY ProcFacts, PairedAlone DEF RInv, SInv, WInv
  <1>2. CASE proc[p].pc = "idle" /\ \E v \in Vertex : BeginAddVertex(p, v)
    <2>1. PICK v \in Vertex : BeginAddVertex(p, v)
      BY <1>2
    <2>2. PICK s : s = [Idle EXCEPT !.pc = "vertex", !.vertex = v]
      OBVIOUS
    <2>3. s.pc = "vertex" /\ s.stack = <<>> /\ s.removed = {}
      BY <2>2 DEF Idle
    <2>4. Goto(p, s) /\ There' = There /\ UNCHANGED <<details, edges, link>>
      BY <1>1, <2>1, <2>2 DEF BeginAddVertex, There, StoreOK
    <2>5. Tidy(s)' /\ EndsThere'
      BY <1>1, <2>3, <2>4, NoStackTidy DEF EndsThere
    <2>6. \A u : ~Answers(proc[p], u) /\ ~Answers(s, u)
      BY <1>2, <2>3 DEF Answers
    <2>7. QED
      BY <1>1, <2>4, <2>5, <2>6, AloneTidies
  <1>3. CASE InsertVertex(p)
    <2>1. PICK v \in Vertex : v = proc[p].vertex /\ status[v] = "drawn"
      BY <1>1, <1>3 DEF Sound, InsertVertex
    <2>2. PICK s : s = At(p, "details")
      OBVIOUS
    <2>3. /\ s.pc = "details" /\ s.vertex = v /\ s.stack = <<>>
          /\ s.removed = proc[p].removed
      BY <1>1, <1>3, <2>1, <2>2 DEF At, ProcState, Walks, InsertVertex
    <2>4. /\ Goto(p, s) /\ There' = There \union {v} /\ v \notin There
          /\ UNCHANGED <<details, edges, link>>
      BY <1>1, <1>3, <2>1, <2>2 DEF InsertVertex, There, StoreOK
    <2>5. Incoming(v)' = {} /\ Outgoing(v)' = {} /\ EndsThere'
      BY <1>1, <2>4 DEF EndsThere, Incoming, Outgoing
    <2>6. Tidy(s)'
      BY <1>1, <2>3, <2>4, <2>5, NoStackNests DEF Tidy, Nested, Fits
    <2>7. /\ \A u : ~Answers(proc[p], u)
          /\ \A u : Answers(s, u) <=> u = v
      BY <1>3, <2>3 DEF Answers, InsertVertex
    <2>8. QED
      BY <1>1, <2>4, <2>5, <2>6, <2>7, AloneTidies
  <1>4. CASE InsertDetails(p) /\ Goto(p, Idle)
    <2>1. PICK v \in Vertex : v = proc[p].vertex /\ v \in There
      BY <1>1, <1>4 DEF Sound, Tidy, InsertDetails
    <2>2. UNCHANGED <<status, edges, link>> /\ There' = There
      BY <1>4 DEF InsertDetails, There
    <2>3. details' = details \union {v}
      <3>1. CASE details' = details /\ Goto(p, At(p, "undo"))
        <4>1. At(p, "undo").pc = "undo" /\ Idle.pc = "idle"
          BY <1>1 DEF At, ProcState, Idle
        <4>2. proc'[p] = Idle /\ proc'[p] = At(p, "undo")
          BY <1>4, <3>1 DEF Goto, RInv, SInv, IInv, ProcOK
        <4>3. QED
          BY <4>1, <4>2
      <3>2. QED
        BY <1>4, <2>1, <3>1 DEF InsertDetails
    <2>4. /\ \A u : Answers(proc[p], u) <=> u = v
          /\ \A u : ~Answers(Idle, u)
      BY <1>4, <2>1, IdleIsFine DEF Answers, InsertDetails
    <2>5. \A u \in Vertex : u \in details' <=> u \in There'
      BY <1>1, <2>1, <2>2, <2>3, <2>4
    <2>6. EndsThere'
      BY <1>1, <2>2 DEF EndsThere
    <2>7. QED
      BY <1>4, <2>4, <2>5, <2>6, IdleIsTidy, AloneTidies
  <1>5. CASE InsertDetails(p) /\ ~Goto(p, Idle)
    <2>1. PICK s : s = At(p, "undo")
      OBVIOUS
    <2>2. /\ s.pc = "undo" /\ s.vertex = proc[p].vertex /\ s.stack = <<>>
          /\ s.removed = proc[p].removed /\ proc[p].pc = "details"
      BY <1>1, <1>5, <2>1 DEF At, ProcState, Walks, InsertDetails
    <2>3. /\ Goto(p, s) /\ UNCHANGED <<status, details, edges, link>> /\ There' = There
      BY <1>5, <2>1 DEF InsertDetails, There
    <2>4. Tidy(s)'
      BY <1>1, <2>2, <2>3, NoStackNests DEF Tidy, Nested, Fits, Incoming, Outgoing
    <2>5. \A u : Answers(s, u) <=> Answers(proc[p], u)
      BY <2>2 DEF Answers
    <2>6. EndsThere'
      BY <1>1, <2>3 DEF EndsThere
    <2>7. QED
      BY <1>1, <2>3, <2>4, <2>5, <2>6, AloneTidies
  <1>6. CASE UndoVertex(p)
    <2>1. PICK v \in Vertex : v = proc[p].vertex
      BY <1>1, <1>6 DEF Sound, UndoVertex
    <2>2. /\ Goto(p, Idle) /\ There' = There \ {v} /\ UNCHANGED <<details, edges, link>>
      BY <1>1, <1>6, <2>1 DEF UndoVertex, Removed, There, StoreOK
    <2>3. Incoming(v) = {} /\ Outgoing(v) = {}
      BY <1>1, <1>6, <2>1 DEF Tidy, UndoVertex
    <2>4. EndsThere'
      BY <1>1, <2>2, <2>3 DEF EndsThere, Incoming, Outgoing
    <2>5. /\ \A u : Answers(proc[p], u) <=> u = v
          /\ \A u : ~Answers(Idle, u)
      BY <1>6, <2>1, IdleIsFine DEF Answers, UndoVertex
    <2>6. QED
      BY <1>1, <2>2, <2>4, <2>5, IdleIsTidy, AloneTidies
  <1>7. QED
    BY <1>2, <1>3, <1>4, <1>5, <1>6

LEMMA EditVertexTidies ==
    ASSUME RInv, SInv', WInv', NEW p \in Writer, Alone(p),
           \/ proc[p].pc = "idle" /\ \E v \in Vertex : BeginEditVertex(p, v)
           \/ UpsertDetails(p) \/ EditVertex(p)
    PROVE  RInv'
  <1>1. /\ proc[p] \in ProcState /\ Sound(proc[p]) /\ Tidy(proc[p]) /\ Walks(proc[p])
        /\ \A u \in Vertex : u \in details <=> u \in There /\ ~Answers(proc[p], u)
    BY ProcFacts, PairedAlone DEF RInv, SInv, WInv
  <1>2. CASE proc[p].pc = "idle" /\ \E v \in Vertex : BeginEditVertex(p, v)
    <2>1. PICK v \in Vertex : BeginEditVertex(p, v)
      BY <1>2
    <2>2. PICK s : s = [Idle EXCEPT !.pc = "upsert", !.vertex = v]
      OBVIOUS
    <2>3. s.pc = "upsert" /\ s.vertex = v /\ s.stack = <<>> /\ s.removed = {}
      BY <2>2 DEF Idle
    <2>4. Goto(p, s) /\ v \in There /\ StoreUntouched
      BY <2>1, <2>2 DEF BeginEditVertex
    <2>5. QED
      BY <1>2, <2>3, <2>4, CheckTidies
  <1>3. CASE UpsertDetails(p)
    <2>1. PICK s : s = At(p, "edit")
      OBVIOUS
    <2>2. /\ s.pc = "edit" /\ s.stack = <<>> /\ s.removed = proc[p].removed
          /\ proc[p].pc = "upsert"
      BY <1>1, <1>3, <2>1 DEF At, ProcState, Walks, UpsertDetails
    <2>3. \A u : ~Answers(proc[p], u)
      BY <2>2 DEF Answers
    <2>4. details' = details
      BY <1>1, <1>3, <2>2, <2>3 DEF UpsertDetails, Tidy, Sound
    <2>5. Goto(p, s) /\ StoreUntouched
      BY <1>3, <2>1, <2>4 DEF UpsertDetails, StoreUntouched
    <2>6. s.removed \intersect edges = {}
      BY <1>1, <2>2 DEF Tidy
    <2>7. QED
      BY <2>2, <2>5, <2>6, CheckTidies
  <1>4. CASE EditVertex(p)
    <2>1. Goto(p, Idle) /\ StoreUntouched /\ proc[p].pc = "edit"
      BY <1>4 DEF EditVertex, Edited, StoreUntouched
    <2>2. QED
      BY <2>1, CheckTidies DEF Idle
  <1>5. QED
    BY <1>2, <1>3, <1>4

LEMMA AddEdgeTidies ==
    ASSUME RInv, SInv', WInv', NEW p \in Writer, Alone(p),
           \/ proc[p].pc = "idle" /\ \E v, w \in Vertex, n \in Name : BeginAddEdge(p, v, w, n)
           \/ CheckCycle(p) \/ CheckDuplicate(p) \/ CheckSingle(p)
           \/ \E e \in Edge : InsertEdge(p, e)
    PROVE  RInv'
  <1>1. /\ proc[p] \in ProcState /\ Sound(proc[p]) /\ Tidy(proc[p]) /\ Walks(proc[p])
        /\ Checked(proc[p]) /\ StoreOK /\ EndsThere
        /\ \A u \in Vertex : u \in details <=> u \in There /\ ~Answers(proc[p], u)
    BY ProcFacts, PairedAlone DEF RInv, SInv, WInv
  <1>2. CASE proc[p].pc = "idle" /\ \E v, w \in Vertex, n \in Name : BeginAddEdge(p, v, w, n)
    <2>1. PICK l : Goto(p, [Idle EXCEPT !.pc = "cycle", !.link = l]) /\ StoreUntouched
      BY <1>2 DEF BeginAddEdge
    <2>2. PICK s : s = [Idle EXCEPT !.pc = "cycle", !.link = l]
      OBVIOUS
    <2>3. s.pc = "cycle" /\ s.stack = <<>> /\ s.removed = {}
      BY <2>2 DEF Idle
    <2>4. QED
      BY <1>2, <2>1, <2>2, <2>3, CheckTidies
  <1>3. ASSUME NEW c \in {"duplicate", "single", "edge"},
               proc[p].pc \in {"cycle", "duplicate", "single"}, StoreUntouched,
               Goto(p, Idle) \/ Goto(p, At(p, c))
        PROVE  RInv'
    <2>1. CASE Goto(p, Idle)
      BY <1>3, <2>1, CheckTidies DEF Idle
    <2>2. CASE Goto(p, At(p, c))
      <3>1. PICK s : s = At(p, c)
        OBVIOUS
      <3>2. s.pc = c /\ s.stack = <<>> /\ s.removed = proc[p].removed
        BY <1>1, <1>3, <3>1 DEF At, ProcState, Walks
      <3>3. s.removed \intersect edges = {}
        BY <1>1, <3>2 DEF Tidy
      <3>4. QED
        BY <1>3, <2>2, <3>1, <3>2, <3>3, CheckTidies
    <2>3. QED
      BY <1>3, <2>1, <2>2
  <1>4. CASE CheckCycle(p)
    <2>1. Goto(p, Idle) \/ Goto(p, At(p, "duplicate"))
      BY <1>4 DEF CheckCycle
    <2>2. QED
      BY <1>3, <1>4, <2>1 DEF CheckCycle
  <1>5. CASE CheckDuplicate(p)
    <2>1. Goto(p, Idle) \/ Goto(p, At(p, "single")) \/ Goto(p, At(p, "edge"))
      BY <1>5 DEF CheckDuplicate
    <2>2. QED
      BY <1>3, <1>5, <2>1 DEF CheckDuplicate
  <1>6. CASE CheckSingle(p)
    <2>1. Goto(p, Idle) \/ Goto(p, At(p, "edge"))
      BY <1>6 DEF CheckSingle
    <2>2. QED
      BY <1>3, <1>6, <2>1 DEF CheckSingle
  <1>7. CASE \E e \in Edge : InsertEdge(p, e)
    <2>1. PICK e \in Edge : InsertEdge(p, e)
      BY <1>7
    <2>2. PICK l \in Link : l = proc[p].link
      BY <1>1, <2>1 DEF Sound, InsertEdge
    <2>3. /\ proc[p].pc = "edge" /\ link[e] = NoLink /\ Goto(p, Idle)
          /\ link' = [link EXCEPT ![e] = l] /\ edges' = edges \union {e}
          /\ UNCHANGED <<status, details>> /\ There' = There
      BY <2>1, <2>2 DEF InsertEdge, There
    <2>4. l.source \in There /\ l.target \in There
      BY <1>1, <2>2, <2>3 DEF Checked
    <2>5. NoLink \notin Link
      BY NoneIsNothing DEF NoLink, Link
    <2>6. link'[e] = l /\ \A f \in edges : f # e /\ link'[f] = link[f]
      BY <1>1, <2>3, <2>5 DEF StoreOK
    <2>7. EndsThere'
      BY <1>1, <2>3, <2>4, <2>6 DEF EndsThere
    <2>8. \A u : ~Answers(proc[p], u) /\ ~Answers(Idle, u)
      BY <2>3, IdleIsFine DEF Answers
    <2>9. QED
      BY <1>1, <2>3, <2>7, <2>8, IdleIsTidy, AloneTidies
  <1>8. QED
    BY <1>2, <1>4, <1>5, <1>6, <1>7

LEMMA BeginDeleteTidies ==
    ASSUME RInv, SInv', WInv', NEW p \in Writer, Alone(p), proc[p].pc = "idle",
           \/ \E v \in Vertex : BeginDeleteVertex(p, v)
           \/ \E e \in Edge : BeginDeleteEdge(p, e)
    PROVE  RInv'
  <1>1. CASE \E v \in Vertex : BeginDeleteVertex(p, v)
    <2>1. PICK v \in Vertex : BeginDeleteVertex(p, v)
      BY <1>1
    <2>2. PICK f : f = Call(v, None)
      OBVIOUS
    <2>3. f.vertex = v /\ f.stage = "start" /\ v \in There
      BY <2>1, <2>2 DEF Call, BeginDeleteVertex, MayDelete
    <2>4. PICK t : t = <<f>>
      OBVIOUS
    <2>5. Len(t) = 1 /\ t[1] = f /\ t # <<>>
      BY <2>4
    <2>6. PICK s : s = [Idle EXCEPT !.pc = "walk", !.stack = t]
      OBVIOUS
    <2>7. s.pc = "walk" /\ s.stack = t /\ s.removed = {}
      BY <2>6 DEF Idle
    <2>8. Nested(t)
      <3>1. 1 .. Len(t) - 1 = {} /\ 1 .. Len(t) = {1}
        BY <2>5
      <3>2. QED
        BY <3>1 DEF Nested
    <2>9. Tidy(s)
      BY <2>3, <2>5, <2>7, <2>8 DEF Tidy, Innermost, Fits
    <2>10. \A u : ~Answers(proc[p], u) /\ ~Answers(s, u)
      BY <2>3, <2>5, <2>7 DEF Answers
    <2>11. Goto(p, s) /\ StoreUntouched
      BY <2>1, <2>2, <2>4, <2>6 DEF BeginDeleteVertex
    <2>12. QED
      BY <2>9, <2>10, <2>11, ReadTidies
  <1>2. CASE \E e \in Edge : BeginDeleteEdge(p, e)
    <2>1. PICK e \in Edge : BeginDeleteEdge(p, e)
      BY <1>2
    <2>2. PICK c \in {"count", "remove"} :
               c = IF link[e].name \in Cascade THEN "count" ELSE "remove"
      OBVIOUS
    <2>3. PICK s : s = [Idle EXCEPT !.pc = c, !.edge = e]
      OBVIOUS
    <2>4. s.pc = c /\ s.stack = <<>> /\ s.removed = {}
      BY <2>3 DEF Idle
    <2>5. Goto(p, s) /\ StoreUntouched
      BY <2>1, <2>2, <2>3 DEF BeginDeleteEdge
    <2>6. QED
      BY <2>4, <2>5, CheckTidies
  <1>3. QED
    BY <1>1, <1>2

\* The innermost call changes, and is for the same vertex and edge.
LEMMA NestedTop ==
    ASSUME NEW t \in Seq(Frame), t # <<>>, Nested(t), NEW f \in Frame,
           f.vertex = t[Len(t)].vertex, f.via = t[Len(t)].via
    PROVE  Nested([t EXCEPT ![Len(t)] = f])
  <1>1. PICK u : u = [t EXCEPT ![Len(t)] = f]
    OBVIOUS
  <1>2. /\ Len(u) = Len(t) /\ u[Len(t)] = f /\ Len(t) \in Nat \ {0}
        /\ \A i \in 1 .. Len(t) : i # Len(t) => u[i] = t[i]
    BY <1>1, TopFacts
  <1>3. \A i \in 1 .. Len(t) : u[i].vertex = t[i].vertex /\ u[i].via = t[i].via
    BY <1>2
  <1>4. ASSUME NEW i \in 1 .. Len(u) - 1
        PROVE  u[i].stage = "out" /\ u[i + 1].via \in Edge /\ Fits(u[i], {u[i + 1].via})
    <2>1. i \in 1 .. Len(t) - 1 /\ i \in 1 .. Len(t) /\ i # Len(t) /\ i + 1 \in 1 .. Len(t)
      BY <1>2
    <2>2. u[i] = t[i] /\ u[i + 1].via = t[i + 1].via
      BY <1>2, <1>3, <2>1
    <2>3. QED
      BY <2>1, <2>2 DEF Nested
  <1>5. \A i, j \in 1 .. Len(u) : u[i].vertex = u[j].vertex => i = j
    BY <1>2, <1>3 DEF Nested
  <1>6. QED
    BY <1>1, <1>4, <1>5 DEF Nested

\* What a walk in the innermost call may rely on.
LEMMA TopTidy ==
    ASSUME RInv, NEW p \in Writer, proc[p].pc = "walk"
    PROVE  /\ proc[p] \in ProcState
           /\ proc[p].stack \in Seq(Frame) /\ proc[p].stack # <<>>
           /\ Nested(proc[p].stack)
           /\ Top(p) \in Frame /\ Fits(Top(p), {})
           /\ Left(p) \subseteq edges
           /\ proc[p].removed \intersect edges = {}
  <1>1. proc[p] \in ProcState /\ Sound(proc[p]) /\ Tidy(proc[p])
    BY ProcFacts DEF RInv, SInv
  <1>2. proc[p].stack \in Seq(Frame) /\ proc[p].stack # <<>>
    BY <1>1 DEF Sound, ProcState
  <1>3. Innermost(Top(p), proc[p]) /\ Hand(proc[p]) = {}
    BY <1>1, <1>2 DEF Tidy, Top, Hand
  <1>4. QED
    BY <1>1, <1>2, <1>3, TopSpares DEF Tidy, Innermost, RInv

\* The innermost call goes on as f; the writer is in state s then.
LEMMA WithTopTidies ==
    ASSUME RInv, NEW p \in Writer, proc[p].pc = "walk", NEW f \in Frame,
           f.vertex = Top(p).vertex, f.via = Top(p).via,
           NEW s, s.pc \in {"walk", "count", "remove"},
           s.stack = WithTop(p, f).stack, s.removed = proc[p].removed, Innermost(f, s)
    PROVE  Tidy(s) /\ s.stack # <<>> /\ s.stack[Len(s.stack)] = f
  <1>1. PICK t \in Seq(Frame) : t = proc[p].stack /\ t # <<>> /\ Nested(t)
    BY TopTidy
  <1>2. s.stack = [t EXCEPT ![Len(t)] = f]
    BY <1>1, TopTidy DEF WithTop, ProcState
  <1>3. f.vertex = t[Len(t)].vertex /\ f.via = t[Len(t)].via
    BY <1>1 DEF Top
  <1>4. s.stack # <<>> /\ s.stack[Len(s.stack)] = f
    BY <1>1, <1>2, TopFacts
  <1>5. Nested(s.stack)
    BY <1>1, <1>2, <1>3, NestedTop
  <1>6. s.removed \intersect edges = {}
    BY TopTidy
  <1>7. QED
    BY <1>4, <1>5, <1>6 DEF Tidy

LEMMA ReadsTidy ==
    ASSUME RInv, SInv', WInv', NEW p \in Writer, Alone(p), ReadIncoming(p) \/ ReadOutgoing(p)
    PROVE  RInv'
  <1>1. proc[p].pc = "walk" /\ Top(p).stage \in {"start", "in"} /\ StoreUntouched
    BY DEF ReadIncoming, ReadOutgoing, Walking
  <1>2. /\ proc[p] \in ProcState /\ Top(p) \in Frame /\ Fits(Top(p), {})
        /\ proc[p].removed \intersect edges = {} /\ edges \subseteq Edge
    BY <1>1, TopTidy DEF RInv, SInv, IInv, StoreOK
  <1>3. PICK f \in Frame :
             /\ Goto(p, WithTop(p, f))
             /\ f.vertex = Top(p).vertex /\ f.via = Top(p).via
             /\ f.stage # "last" /\ Fits(f, {})
    <2>1. CASE ReadIncoming(p)
      <3>1. PICK f : f = [Top(p) EXCEPT !.stage = "in", !.todo = Incoming(Top(p).vertex)]
        OBVIOUS
      <3>2. /\ f \in Frame /\ f.vertex = Top(p).vertex /\ f.via = Top(p).via
            /\ f.todo = Incoming(f.vertex) /\ f.stage = "in"
        BY <1>2, <3>1 DEF Frame, Stage, Incoming
      <3>3. Fits(f, {})
        BY <1>2, <3>2 DEF Fits
      <3>4. QED
        BY <2>1, <3>1, <3>2, <3>3 DEF ReadIncoming
    <2>2. CASE ReadOutgoing(p)
      <3>1. PICK f : f = [Top(p) EXCEPT !.stage = "out", !.todo = OutgoingOf(Top(p).vertex)]
        OBVIOUS
      <3>2. /\ f \in Frame /\ f.vertex = Top(p).vertex /\ f.via = Top(p).via
            /\ f.todo = Outgoing(f.vertex) /\ f.stage = "out"
        BY <1>2, <3>1 DEF Frame, Stage, Outgoing, OutgoingOf
      <3>3. Incoming(f.vertex) \subseteq Top(p).todo /\ Top(p).todo \subseteq proc[p].removed
        BY <1>2, <2>2, <3>2 DEF ReadOutgoing, Walking, Left, Fits
      <3>4. Incoming(f.vertex) = {}
        BY <1>2, <3>3 DEF Incoming
      <3>5. Fits(f, {})
        BY <1>2, <3>2, <3>4 DEF Fits
      <3>6. QED
        BY <2>2, <3>1, <3>2, <3>5 DEF ReadOutgoing
    <2>3. QED
      BY <2>1, <2>2
  <1>4. PICK s : s = WithTop(p, f)
    OBVIOUS
  <1>5. s.pc = "walk" /\ s.removed = proc[p].removed
    BY <1>1, <1>2, <1>4 DEF WithTop, ProcState
  <1>6. Innermost(f, s)
    BY <1>3, <1>5 DEF Innermost, Hand
  <1>7. Tidy(s) /\ s.stack # <<>> /\ s.stack[Len(s.stack)] = f
    BY <1>1, <1>3, <1>4, <1>5, <1>6, WithTopTidies
  <1>8. \A v : ~Answers(proc[p], v) /\ ~Answers(s, v)
    BY <1>1, <1>3, <1>5, <1>7 DEF Answers, Top
  <1>9. QED
    BY <1>1, <1>3, <1>4, <1>7, <1>8, ReadTidies

LEMMA PicksTidy ==
    ASSUME RInv, SInv', WInv', NEW p \in Writer, Alone(p), NEW e \in Edge,
           PickIncoming(p, e) \/ PickOutgoing(p, e)
    PROVE  RInv'
  <1>1. /\ proc[p].pc = "walk" /\ Top(p).stage \in {"in", "out"} /\ StoreUntouched
        /\ e \in Left(p)
    BY DEF PickIncoming, PickOutgoing, Walking
  <1>2. /\ proc[p] \in ProcState /\ Top(p) \in Frame /\ Fits(Top(p), {})
        /\ e \in edges /\ link[e].source \in There
    BY <1>1, TopTidy DEF RInv, EndsThere
  <1>3. PICK f : f = [Top(p) EXCEPT !.todo = @ \ {e}]
    OBVIOUS
  <1>4. /\ f \in Frame /\ f.vertex = Top(p).vertex /\ f.via = Top(p).via
        /\ f.stage = Top(p).stage /\ f.todo = Top(p).todo \ {e}
    BY <1>2, <1>3 DEF Frame
  <1>5. Fits(f, {e})
    BY <1>2, <1>4 DEF Fits
  <1>6. PICK c \in {"count", "remove"} :
             /\ Goto(p, [WithTop(p, f) EXCEPT !.pc = c, !.edge = e])
             /\ c = "count" => f.stage = "out"
    <2>1. CASE PickIncoming(p, e)
      BY <1>2, <1>3, <2>1 DEF PickIncoming, Without
    <2>2. CASE PickOutgoing(p, e)
      <3>1. f.stage = "out"
        BY <1>4, <2>2 DEF PickOutgoing, Walking
      <3>2. PICK c \in {"count", "remove"} :
                 c = IF link[e].name \in Cascade THEN "count" ELSE "remove"
        OBVIOUS
      <3>3. Goto(p, [WithTop(p, f) EXCEPT !.pc = c, !.edge = e])
        BY <1>3, <2>2, <3>2 DEF PickOutgoing, Without
      <3>4. QED
        BY <3>1, <3>3
    <2>3. QED
      BY <2>1, <2>2
  <1>7. PICK s : s = [WithTop(p, f) EXCEPT !.pc = c, !.edge = e]
    OBVIOUS
  <1>8. /\ s.pc = c /\ s.edge = e /\ s.removed = proc[p].removed
        /\ s.stack = WithTop(p, f).stack
    BY <1>2, <1>7 DEF WithTop, ProcState
  <1>9. Innermost(f, s)
    BY <1>1, <1>4, <1>5, <1>6, <1>8 DEF Innermost, Hand
  <1>10. Tidy(s)
    BY <1>1, <1>4, <1>8, <1>9, WithTopTidies
  <1>11. \A v : ~Answers(proc[p], v) /\ ~Answers(s, v)
    BY <1>1, <1>8 DEF Answers, Top
  <1>12. QED
    BY <1>1, <1>6, <1>7, <1>10, <1>11, ReadTidies

\* The edge in hand leads to a vertex that no call of the walk is for: nothing
\* leads to those any more.
LEMMA CountTargetTidies ==
    ASSUME Deletable = Vertex, RInv, SInv', WInv', NEW p \in Writer, Alone(p), CountTarget(p)
    PROVE  RInv'
  <1>1. /\ proc[p] \in ProcState /\ Sound(proc[p]) /\ Tidy(proc[p]) /\ Walks(proc[p])
        /\ proc[p].pc = "count" /\ StoreUntouched /\ StoreOK /\ EndsThere
    BY ProcFacts DEF RInv, SInv, WInv, CountTarget
  <1>2. PICK e \in edges : e = proc[p].edge
    BY <1>1 DEF Walks
  <1>3. PICK v : v = link[e].target
    OBVIOUS
  <1>4. v \in There /\ v \in Vertex /\ e \in Incoming(v) /\ e \in Edge
    BY <1>1, <1>2, <1>3 DEF EndsThere, There, Incoming, StoreOK
  <1>5. PICK r \in Seq(Frame) : r = proc[p].stack
    BY <1>1 DEF ProcState
  <1>6. /\ Nested(r) /\ proc[p].removed \intersect edges = {}
        /\ r # <<>> => r[Len(r)].stage = "out" /\ Fits(r[Len(r)], {e})
    BY <1>1, <1>2, <1>5 DEF Tidy, Innermost, Hand
  <1>7. \A u : ~Answers(proc[p], u)
    BY <1>1 DEF Answers
  <1>8. CASE Goto(p, At(p, "remove"))
    <2>1. PICK s : s = At(p, "remove")
      OBVIOUS
    <2>2. /\ s.pc = "remove" /\ s.stack = r /\ s.removed = proc[p].removed
          /\ s.edge = e
      BY <1>1, <1>2, <1>5, <2>1 DEF At, ProcState
    <2>3. Tidy(s)
      BY <1>6, <2>2 DEF Tidy, Innermost, Hand
    <2>4. \A u : ~Answers(s, u)
      BY <2>2 DEF Answers
    <2>5. QED
      BY <1>1, <1>7, <1>8, <2>1, <2>3, <2>4, ReadTidies
  <1>9. CASE Goto(p, [At(p, "walk") EXCEPT !.stack = Append(@, Call(v, e)), !.edge = None])
    <2>1. PICK f : f = Call(v, e)
      OBVIOUS
    <2>2. f \in Frame /\ f.vertex = v /\ f.via = e /\ f.stage = "start"
      BY <1>4, <2>1 DEF Call, Frame, Stage
    <2>3. PICK t : t = Append(r, f)
      OBVIOUS
    <2>4. /\ t # <<>> /\ Len(r) \in Nat /\ Len(t) = Len(r) + 1
          /\ \A i \in 1 .. Len(r) : t[i] = r[i]
          /\ t[Len(t)] = f
      BY <2>2, <2>3, PushFacts
    <2>5. ASSUME NEW i \in 1 .. Len(r)
          PROVE  /\ t[i].stage = "out" /\ t[i + 1].via \in Edge
                 /\ Fits(t[i], {t[i + 1].via})
      <3>1. CASE i = Len(r)
        <4>1. r # <<>> /\ t[i] = r[Len(r)] /\ t[i + 1] = f
          BY <2>4, <3>1, EmptySeq
        <4>2. QED
          BY <1>4, <1>6, <2>2, <4>1
      <3>2. CASE i # Len(r)
        <4>1. i \in 1 .. Len(r) - 1 /\ i + 1 \in 1 .. Len(r)
          BY <2>4, <3>2
        <4>2. t[i] = r[i] /\ t[i + 1] = r[i + 1]
          BY <2>4, <4>1
        <4>3. QED
          BY <1>6, <4>1, <4>2 DEF Nested
      <3>3. QED
        BY <3>1, <3>2
    <2>6. \A i \in 1 .. Len(r) : t[i].vertex # v
      BY <1>4, <2>5 DEF Fits
    <2>7. \A i, j \in 1 .. Len(t) : t[i].vertex = t[j].vertex => i = j
      <3>1. ASSUME NEW i \in 1 .. Len(t), NEW j \in 1 .. Len(t), t[i].vertex = t[j].vertex
            PROVE  i = j
        <4>1. (i = Len(t) \/ i \in 1 .. Len(r)) /\ (j = Len(t) \/ j \in 1 .. Len(r))
          BY <2>4
        <4>2. CASE i \in 1 .. Len(r) /\ j \in 1 .. Len(r)
          <5>1. r[i].vertex = r[j].vertex
            BY <2>4, <3>1, <4>2
          <5>2. QED
            BY <1>6, <4>2, <5>1 DEF Nested
        <4>3. CASE i = Len(t) \/ j = Len(t)
          BY <2>2, <2>4, <2>6, <3>1, <4>1, <4>3
        <4>4. QED
          BY <4>1, <4>2, <4>3
      <3>2. QED
        BY <3>1
    <2>8. Nested(t)
      <3>1. Len(t) - 1 = Len(r)
        BY <2>4
      <3>2. QED
        BY <2>5, <2>7, <3>1 DEF Nested
    <2>9. PICK s : s = [At(p, "walk") EXCEPT !.stack = Append(@, f), !.edge = None]
      OBVIOUS
    <2>10. s = [proc[p] EXCEPT !.pc = "walk", !.stack = t, !.edge = None]
      BY <1>1, <1>5, <2>3, <2>9 DEF At, ProcState
    <2>11. s.pc = "walk" /\ s.stack = t /\ s.removed = proc[p].removed
      BY <1>1, <2>10 DEF ProcState
    <2>12. Tidy(s)
      BY <1>4, <1>6, <2>2, <2>4, <2>8, <2>11 DEF Tidy, Innermost, Fits
    <2>13. \A u : ~Answers(s, u)
      BY <2>2, <2>4, <2>11 DEF Answers
    <2>14. QED
      BY <1>1, <1>7, <1>9, <2>1, <2>9, <2>12, <2>13, ReadTidies
  <1>10. QED
    BY <1>2, <1>3, <1>4, <1>8, <1>9 DEF CountTarget, MayDelete

\* A call stays as it is when other edges or vertices go.
LEMMA FitsStays ==
    ASSUME NEW f, NEW H, Fits(f, H), f.vertex \in There', edges' \subseteq edges, link' = link
    PROVE  Fits(f, H)'
  <1>1. \A v : Incoming(v)' \subseteq Incoming(v) /\ Outgoing(v)' \subseteq Outgoing(v)
    BY DEF Incoming, Outgoing
  <1>2. QED
    BY <1>1 DEF Fits

LEMMA NestedStays ==
    ASSUME NEW t, Nested(t), edges' \subseteq edges, link' = link,
           \A i \in 1 .. Len(t) - 1 : t[i].vertex \in There'
    PROVE  Nested(t)'
  <1>1. ASSUME NEW i \in 1 .. Len(t) - 1 PROVE Fits(t[i], {t[i + 1].via})'
    BY FitsStays DEF Nested
  <1>2. QED
    BY <1>1 DEF Nested, Fits

LEMMA RemoveEdgeTidies ==
    ASSUME RInv, SInv', WInv', NEW p \in Writer, Alone(p), RemoveEdge(p)
    PROVE  RInv'
  <1>1. /\ proc[p] \in ProcState /\ Tidy(proc[p]) /\ EndsThere /\ proc[p].pc = "remove"
        /\ UNCHANGED <<status, details, link>> /\ There' = There
        /\ \A v \in Vertex : v \in details <=> v \in There /\ ~Answers(proc[p], v)
    BY ProcFacts, PairedAlone DEF RInv, SInv, RemoveEdge, There
  <1>2. PICK e : e = proc[p].edge
    OBVIOUS
  <1>3. PICK t : t = [proc[p] EXCEPT !.removed = @ \union {e}]
    OBVIOUS
  <1>4. /\ t.stack = proc[p].stack /\ t.removed = proc[p].removed \union {e}
        /\ t = [proc[p] EXCEPT !.removed = proc[p].removed \union {e}]
    BY <1>1, <1>3 DEF ProcState
  <1>5. Goto(p, Resume(t)) /\ edges' = edges \ {e}
    BY <1>2, <1>3 DEF RemoveEdge
  <1>6. EndsThere'
    BY <1>1, <1>5 DEF EndsThere
  <1>7. \A v : ~Answers(proc[p], v)
    BY <1>1 DEF Answers
  <1>8. CASE t.stack = <<>>
    <2>1. Goto(p, Idle)
      BY <1>5, <1>8 DEF Resume
    <2>2. \A v : ~Answers(Idle, v)
      BY IdleIsFine DEF Answers
    <2>3. QED
      BY <1>1, <1>6, <1>7, <2>1, <2>2, IdleIsTidy, AloneTidies
  <1>9. CASE t.stack # <<>>
    <2>1. PICK s : s = [t EXCEPT !.pc = "walk", !.edge = None]
      OBVIOUS
    <2>2. /\ s.pc = "walk" /\ s.stack = proc[p].stack
          /\ s.removed = proc[p].removed \union {e}
      BY <1>1, <1>4, <2>1 DEF ProcState
    <2>3. Goto(p, s)
      BY <1>5, <1>9, <2>1 DEF Resume
    <2>4. PICK f : f = s.stack[Len(s.stack)]
      OBVIOUS
    <2>5. Fits(f, {e}) /\ f.stage \in {"in", "out"}
      BY <1>1, <1>2, <1>4, <1>9, <2>2, <2>4 DEF Tidy, Innermost, Hand
    <2>6. Fits(f, {})'
      <3>1. \A v : /\ Incoming(v)' = Incoming(v) \ {e}
                   /\ Outgoing(v)' = Outgoing(v) \ {e}
        BY <1>1, <1>5 DEF Incoming, Outgoing
      <3>2. QED
        BY <1>1, <2>5, <3>1 DEF Fits
    <2>7. Nested(s.stack)'
      <3>1. PICK r : r = s.stack
        OBVIOUS
      <3>2. Nested(r)
        BY <1>1, <2>2, <3>1 DEF Tidy
      <3>3. \A i \in 1 .. Len(r) - 1 : r[i].vertex \in There'
        BY <1>1, <3>2 DEF Nested, Fits
      <3>4. Nested(r)'
        BY <1>1, <1>5, <3>2, <3>3, NestedStays
      <3>5. QED
        BY <3>1, <3>4 DEF Nested, Fits, Incoming, Outgoing
    <2>8. s.removed \intersect edges' = {}
      BY <1>1, <1>5, <2>2 DEF Tidy
    <2>9. Tidy(s)'
      BY <2>2, <2>4, <2>6, <2>7, <2>8 DEF Tidy, Innermost, Hand, Fits, Incoming, Outgoing
    <2>10. \A v : ~Answers(s, v)
      BY <2>2, <2>4, <2>5 DEF Answers
    <2>11. QED
      BY <1>1, <1>6, <1>7, <2>3, <2>9, <2>10, AloneTidies
  <1>10. QED
    BY <1>8, <1>9

LEMMA RemoveDetailsTidies ==
    ASSUME RInv, SInv', WInv', NEW p \in Writer, Alone(p), RemoveDetails(p)
    PROVE  RInv'
  <1>1. /\ proc[p].pc = "walk" /\ Top(p).stage = "out" /\ Left(p) = {}
        /\ UNCHANGED <<status, edges, link>> /\ There' = There
    BY DEF RemoveDetails, Walking, There
  <1>2. /\ proc[p] \in ProcState /\ Top(p) \in Frame /\ Fits(Top(p), {})
        /\ proc[p].removed \intersect edges = {} /\ EndsThere
        /\ \A v \in Vertex : v \in details <=> v \in There /\ ~Answers(proc[p], v)
    BY <1>1, TopTidy, PairedAlone DEF RInv
  <1>3. PICK f : f = [Top(p) EXCEPT !.stage = "last"]
    OBVIOUS
  <1>4. /\ f \in Frame /\ f.vertex = Top(p).vertex /\ f.via = Top(p).via
        /\ f.stage = "last"
    BY <1>2, <1>3 DEF Frame, Stage
  <1>5. Outgoing(f.vertex) = {}
    <2>1. Outgoing(f.vertex) \subseteq proc[p].removed /\ Outgoing(f.vertex) \subseteq edges
      BY <1>1, <1>2, <1>4 DEF Fits, Left, Outgoing
    <2>2. QED
      BY <1>2, <2>1
  <1>6. Fits(f, {})
    BY <1>1, <1>2, <1>4, <1>5 DEF Fits
  <1>7. PICK s : s = WithTop(p, f)
    OBVIOUS
  <1>8. s.pc = "walk" /\ s.removed = proc[p].removed
    BY <1>1, <1>2, <1>7 DEF WithTop, ProcState
  <1>9. Tidy(s) /\ s.stack # <<>> /\ s.stack[Len(s.stack)] = f
    <2>1. Innermost(f, s)
      BY <1>6, <1>8 DEF Innermost, Hand
    <2>2. QED
      BY <1>1, <1>4, <1>7, <1>8, <2>1, WithTopTidies
  <1>10. Tidy(s)'
    <2>1. \A v : Incoming(v)' = Incoming(v) /\ Outgoing(v)' = Outgoing(v)
      BY <1>1 DEF Incoming, Outgoing
    <2>2. QED
      BY <1>1, <1>9, <2>1 DEF Tidy, Nested, Fits, Innermost, Hand
  <1>11. /\ \A v : ~Answers(proc[p], v)
         /\ \A v : Answers(s, v) <=> v = f.vertex
    BY <1>1, <1>4, <1>8, <1>9 DEF Answers, Top
  <1>12. Goto(p, s) /\ details' = details \ {f.vertex}
    BY <1>3, <1>4, <1>7 DEF RemoveDetails
  <1>13. EndsThere'
    BY <1>1, <1>2 DEF EndsThere
  <1>14. QED
    BY <1>1, <1>2, <1>10, <1>11, <1>12, <1>13, AloneTidies

LEMMA RemoveVertexTidies ==
    ASSUME RInv, SInv', WInv', NEW p \in Writer, Alone(p), RemoveVertex(p)
    PROVE  RInv'
  <1>1. /\ proc[p].pc = "walk" /\ Top(p).stage = "last" /\ UNCHANGED <<details, edges, link>>
    BY DEF RemoveVertex, Walking
  <1>2. PICK r \in Seq(Frame) : r = proc[p].stack /\ r # <<>> /\ Nested(r)
    BY <1>1, TopTidy
  <1>3. /\ proc[p] \in ProcState /\ Top(p) \in Frame /\ Fits(Top(p), {})
        /\ proc[p].removed \intersect edges = {} /\ EndsThere /\ StoreOK
        /\ \A u \in Vertex : u \in details <=> u \in There /\ ~Answers(proc[p], u)
    BY <1>1, TopTidy, PairedAlone DEF RInv, SInv, IInv
  <1>4. PICK v \in Vertex : v = Top(p).vertex
    BY <1>3 DEF Frame
  <1>5. There' = There \ {v} /\ Incoming(v) = {} /\ Outgoing(v) = {}
    BY <1>1, <1>3, <1>4 DEF RemoveVertex, Removed, There, StoreOK, Fits
  <1>6. EndsThere'
    BY <1>1, <1>3, <1>5 DEF EndsThere, Incoming, Outgoing
  <1>7. \A u : Answers(proc[p], u) <=> u = v
    BY <1>1, <1>4 DEF Answers, Top
  <1>8. CASE Goto(p, Idle)
    <2>1. \A u : ~Answers(Idle, u)
      BY IdleIsFine DEF Answers
    <2>2. QED
      BY <1>1, <1>3, <1>5, <1>6, <1>7, <1>8, <2>1, IdleIsTidy, AloneTidies
  <1>9. CASE Goto(p, [At(p, "remove") EXCEPT !.stack = Front(@), !.edge = Top(p).via])
    <2>1. PICK t : t = Front(r)
      OBVIOUS
    <2>2. /\ t \in Seq(Frame) /\ Len(r) \in Nat \ {0} /\ Len(t) = Len(r) - 1
          /\ \A i \in 1 .. Len(t) : t[i] = r[i]
      BY <1>2, <2>1, FrontFacts, TopFacts
    <2>3. PICK s : s = [At(p, "remove") EXCEPT !.stack = Front(@), !.edge = Top(p).via]
      OBVIOUS
    <2>4. s = [proc[p] EXCEPT !.pc = "remove", !.stack = t, !.edge = Top(p).via]
      BY <1>2, <1>3, <2>1, <2>3 DEF At, ProcState
    <2>5. /\ s.pc = "remove" /\ s.stack = t /\ s.removed = proc[p].removed
          /\ s.edge = r[Len(r)].via
      BY <1>2, <1>3, <2>4 DEF ProcState, Top
    <2>6. ASSUME NEW i \in 1 .. Len(t)
          PROVE  /\ t[i].vertex \in There'
                 /\ t[i].stage = "out" /\ r[i + 1].via \in Edge
                 /\ Fits(t[i], {r[i + 1].via})'
      <3>1. /\ i \in 1 .. Len(r) - 1 /\ i \in 1 .. Len(r) /\ i # Len(r)
            /\ Len(r) \in 1 .. Len(r) /\ t[i] = r[i]
        BY <2>2
      <3>2. r[i].vertex # v
        BY <1>2, <1>4, <3>1 DEF Nested, Top
      <3>3. /\ r[i].stage = "out" /\ r[i + 1].via \in Edge
            /\ Fits(r[i], {r[i + 1].via})
        BY <1>2, <3>1 DEF Nested
      <3>4. r[i].vertex \in There'
        BY <1>5, <3>2, <3>3 DEF Fits
      <3>5. Fits(r[i], {r[i + 1].via})'
        BY <1>1, <3>3, <3>4, FitsStays
      <3>6. QED
        BY <3>1, <3>3, <3>4, <3>5 DEF Fits, Incoming, Outgoing
    <2>7. Nested(t)'
      <3>1. ASSUME NEW i \in 1 .. Len(t) - 1
            PROVE  /\ t[i].stage = "out" /\ t[i + 1].via \in Edge
                   /\ Fits(t[i], {t[i + 1].via})'
        <4>1. i \in 1 .. Len(t) /\ t[i + 1] = r[i + 1]
          BY <2>2
        <4>2. QED
          BY <2>6, <4>1
      <3>2. \A i, j \in 1 .. Len(t) : t[i].vertex = t[j].vertex => i = j
        <4>1. \A i \in 1 .. Len(t) : i \in 1 .. Len(r) /\ t[i] = r[i]
          BY <2>2
        <4>2. \A i, j \in 1 .. Len(r) : r[i].vertex = r[j].vertex => i = j
          BY <1>2 DEF Nested
        <4>3. QED
          BY <4>1, <4>2
      <3>3. QED
        BY <3>1, <3>2 DEF Nested, Fits, Incoming, Outgoing
    <2>8. t # <<>> => t[Len(t)].stage = "out" /\ Fits(t[Len(t)], {s.edge})'
      <3>1. SUFFICES ASSUME t # <<>>
                     PROVE  t[Len(t)].stage = "out" /\ Fits(t[Len(t)], {s.edge})'
        OBVIOUS
      <3>2. Len(t) \in 1 .. Len(t) /\ Len(t) + 1 = Len(r)
        BY <2>2, <3>1, TopFacts
      <3>3. QED
        BY <2>5, <2>6, <3>2
    <2>9. Tidy(s)'
      BY <1>1, <1>3, <2>5, <2>7, <2>8 DEF Tidy, Innermost, Hand
    <2>10. \A u : ~Answers(s, u)
      BY <2>5 DEF Answers
    <2>11. Goto(p, s)
      BY <1>9, <2>3
    <2>12. QED
      BY <1>1, <1>3, <1>5, <1>6, <1>7, <2>9, <2>10, <2>11, AloneTidies
  <1>10. QED
    BY <1>8, <1>9 DEF RemoveVertex

LEMMA TidyInvariance ==
    ASSUME MaxFaults = 0, Deletable = Vertex
    PROVE  SerialSpec => []RInv
  <1>1. Init /\ SInv /\ WInv => RInv
    <2> SUFFICES ASSUME Init, SInv, WInv PROVE RInv
      OBVIOUS
    <2>1. \A p \in Writer : Tidy(proc[p])
      BY IdleIsTidy DEF Init
    <2>2. EndsThere
      BY DEF Init, EndsThere
    <2>3. Paired
      BY IdleIsFine, SeedIsVertices DEF Init, Paired, There, Answers
    <2>4. QED
      BY <2>1, <2>2, <2>3 DEF RInv
  <1>2. ASSUME RInv, SInv', WInv', NEW p \in Writer, Alone(p), Step(p) PROVE RInv'
    <2>1. ~RemoveEdgeFails(p) /\ ~Crash(p)
      BY <1>2 DEF RInv, SInv, IInv, StoreOK, RemoveEdgeFails, Crash
    <2>2. CASE BeginRequest(p)
      BY <1>2, <2>2, AddVertexTidies, EditVertexTidies, AddEdgeTidies, BeginDeleteTidies
         DEF BeginRequest
    <2>3. CASE Continue(p)
      BY <1>2, <2>1, <2>3, AddVertexTidies, EditVertexTidies, AddEdgeTidies, ReadsTidy,
         PicksTidy, CountTargetTidies, RemoveEdgeTidies, RemoveDetailsTidies,
         RemoveVertexTidies DEF Continue
    <2>4. QED
      BY <1>2, <2>1, <2>2, <2>3 DEF Step
  <1>3. ASSUME RInv, SInv', WInv', UNCHANGED vars PROVE RInv'
    <2>1. UNCHANGED <<status, details, edges, link, proc>> /\ There' = There
      BY <1>3 DEF vars, There
    <2>2. \A v : Incoming(v)' = Incoming(v) /\ Outgoing(v)' = Outgoing(v)
      BY <2>1 DEF Incoming, Outgoing
    <2>3. ASSUME NEW p \in Writer PROVE Tidy(proc[p])'
      <3>1. PICK s : s = proc[p]
        OBVIOUS
      <3>2. Tidy(s)
        BY <1>3, <3>1 DEF RInv
      <3>3. Tidy(s)'
        BY <2>1, <2>2, <3>2 DEF Tidy, Nested, Fits, Innermost, Hand
      <3>4. proc'[p] = s
        BY <2>1, <3>1
      <3>5. QED
        BY <3>3, <3>4 DEF Tidy, Nested, Fits, Incoming, Outgoing, Innermost, Hand
    <2>4. Paired' /\ EndsThere'
      BY <1>3, <2>1 DEF RInv, Paired, Answers, EndsThere
    <2>5. QED
      BY <1>3, <2>3, <2>4 DEF RInv
  <1>4. RInv /\ SInv' /\ WInv' /\ [SerialNext]_vars => RInv'
    BY <1>2, <1>3 DEF SerialNext
  <1>5. QED
    BY <1>1, <1>4, SerialInvariance, WalksInvariance, PTL DEF SerialSpec

(* Nothing is left of what was deleted: with no overlap and no fault, and   *)
(* if every vertex may be deleted, vertices and collection documents come  *)
(* in pairs and every edge has both its ends whenever no writer is at work. *)
THEOREM NothingIsLeft ==
    ASSUME MaxFaults = 0, Deletable = Vertex
    PROVE  SerialSpec => []WholeAtRest
  <1>1. RInv => WholeAtRest
    <2> SUFFICES ASSUME RInv, Quiet
                 PROVE  /\ details = There
                        /\ \A e \in edges : link[e].source \in There /\ link[e].target \in There
      BY DEF WholeAtRest
    <2>1. \A p \in Writer : \A v : ~Answers(proc[p], v)
      BY DEF Quiet, Answers
    <2>2. details \subseteq Vertex /\ There \subseteq Vertex
      BY DEF RInv, SInv, IInv, StoreOK, There
    <2>3. QED
      BY <2>1, <2>2 DEF RInv, Paired, EndsThere
  <1>2. QED
    BY <1>1, TidyInvariance, PTL

=============================================================================
