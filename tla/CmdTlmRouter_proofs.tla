-------------------------- MODULE CmdTlmRouter_proofs --------------------------
(***************************************************************************)
(* Proofs about CmdTlmRouter for any tools, clients and campaigns: the     *)
(* commands of each sender reach the flight software in order, telemetry   *)
(* reaches every destination, the mutex is held for one fan-out or kept by *)
(* a thread that an exception ended.  The inductive invariant is IInv.     *)
(***************************************************************************)
EXTENDS CmdTlmRouter, SequenceTheorems, TLAPS

-----------------------------------------------------------------------------
(* Queues.                                                                  *)

\* What Append and Tail do to the places of a queue.
LEMMA AppendFact ==
  ASSUME NEW S, NEW q \in Seq(S), NEW c \in S
  PROVE  /\ Append(q, c) \in Seq(S) /\ DOMAIN q = 1 .. Len(q) /\ Len(q) \in Nat
         /\ DOMAIN Append(q, c) = 1 .. Len(q) + 1
         /\ Append(q, c)[Len(q) + 1] = c
         /\ \A i \in DOMAIN q : Append(q, c)[i] = q[i]
BY AppendProperties

LEMMA TailFact ==
  ASSUME NEW S, NEW q \in Seq(S), q # <<>>
  PROVE  /\ Tail(q) \in Seq(S) /\ DOMAIN q = 1 .. Len(q) /\ Len(q) \in Nat \ {0}
         /\ DOMAIN Tail(q) = 1 .. Len(q) - 1
         /\ 1 \in DOMAIN q /\ Head(q) = q[1] /\ Head(q) \in S
         /\ \A i \in DOMAIN Tail(q) : i + 1 \in DOMAIN q /\ Tail(q)[i] = q[i + 1]
BY HeadTailProperties

LEMMA HasAppend ==
  ASSUME NEW S, NEW q \in Seq(S), NEW c \in S, NEW x
  PROVE  Has(Append(q, c), x) <=> Has(q, x) \/ x = c
BY AppendFact DEF Has

LEMMA HasTail ==
  ASSUME NEW S, NEW q \in Seq(S), q # <<>>, NEW x
  PROVE  Has(q, x) <=> Has(Tail(q), x) \/ x = Head(q)
<1>1. /\ DOMAIN q = 1 .. Len(q) /\ Len(q) \in Nat \ {0} /\ DOMAIN Tail(q) = 1 .. Len(q) - 1
      /\ Head(q) = q[1] /\ \A i \in DOMAIN Tail(q) : i + 1 \in DOMAIN q /\ Tail(q)[i] = q[i + 1]
  BY TailFact
<1>2. ASSUME NEW i \in DOMAIN q, i # 1
      PROVE  i - 1 \in DOMAIN Tail(q) /\ Tail(q)[i - 1] = q[i]
  <2>1. i - 1 \in DOMAIN Tail(q)
    BY <1>1, <1>2
  <2>2. Tail(q)[i - 1] = q[(i - 1) + 1]
    BY <1>1, <2>1
  <2> QED
    BY <1>1, <2>1, <2>2
<1>3. Has(q, x) => Has(Tail(q), x) \/ x = Head(q)
  BY <1>1, <1>2 DEF Has
<1>4. Has(Tail(q), x) \/ x = Head(q) => Has(q, x)
  BY <1>1 DEF Has
<1> QED
  BY <1>3, <1>4

LEMMA AppendCmd ==
  \A q \in Seq(Cmds) : \A c \in Cmds :
    /\ Append(q, c) \in Seq(Cmds) /\ DOMAIN q = 1 .. Len(q) /\ Len(q) \in Nat
    /\ DOMAIN Append(q, c) = 1 .. Len(q) + 1
    /\ Append(q, c)[Len(q) + 1] = c
    /\ \A i \in DOMAIN q : Append(q, c)[i] = q[i]
BY AppendFact

LEMMA TailCmd ==
  \A q \in Seq(Cmds) : q # <<>> =>
    /\ Tail(q) \in Seq(Cmds) /\ DOMAIN q = 1 .. Len(q) /\ Len(q) \in Nat \ {0}
    /\ Head(q) = q[1] /\ Head(q) \in Cmds
    /\ \A i \in DOMAIN Tail(q) : i \in Nat \ {0} /\ i + 1 \in DOMAIN q /\ Tail(q)[i] = q[i + 1]
BY TailFact

\* The head of q is moved to the end of p.
LEMMA MoveFact ==
  ASSUME NEW p \in Seq(Cmds), NEW q \in Seq(Cmds), q # <<>>, NEW s,
         Rising(p, s), Rising(q, s), Before(p, q, s)
  PROVE  /\ Rising(Append(p, Head(q)), s) /\ Rising(Tail(q), s)
         /\ Before(Append(p, Head(q)), Tail(q), s)
<1> DEFINE v == Append(p, Head(q))  t == Tail(q)
<1>1. /\ DOMAIN p = 1 .. Len(p) /\ Len(p) \in Nat /\ DOMAIN v = 1 .. Len(p) + 1
      /\ v[Len(p) + 1] = q[1] /\ \A i \in DOMAIN p : v[i] = p[i]
  BY AppendCmd, TailCmd
<1>2. /\ 1 \in DOMAIN q
      /\ \A i \in DOMAIN t : i \in Nat \ {0} /\ i + 1 \in DOMAIN q /\ t[i] = q[i + 1]
  BY TailCmd
<1> HIDE DEF v, t
<1>3. Rising(v, s)
  BY <1>1, <1>2 DEF Rising, Before
<1>4. Rising(t, s)
  BY <1>2 DEF Rising
<1>5. Before(v, t, s)
  <2> SUFFICES ASSUME NEW i \in DOMAIN v, NEW j \in DOMAIN t, v[i].src = s, t[j].src = s
               PROVE  v[i].n < t[j].n
    BY DEF Before
  <2>1. CASE i \in DOMAIN p
    BY <1>1, <1>2, <2>1 DEF Before
  <2>2. CASE i = Len(p) + 1
    BY <1>1, <1>2, <2>2 DEF Rising
  <2> QED
    BY <1>1, <2>1, <2>2
<1> QED
  BY <1>3, <1>4, <1>5 DEF v, t

\* The same for what comes before or after a queue.
LEMMA BeforeFact ==
  ASSUME NEW q \in Seq(Cmds), NEW c \in Cmds, NEW r, NEW s
  PROVE  /\ Before(r, q, s) /\ (\A i \in DOMAIN r : r[i].src = s /\ c.src = s => r[i].n < c.n)
              => Before(r, Append(q, c), s)
         /\ Before(q, r, s) /\ (\A i \in DOMAIN r : r[i].src = s /\ c.src = s => c.n < r[i].n)
              => Before(Append(q, c), r, s)
         /\ Rising(q, s) /\ (\A i \in DOMAIN q : q[i].src = s /\ c.src = s => q[i].n < c.n)
              => Rising(Append(q, c), s)
<1> DEFINE v == Append(q, c)
<1>1. \A i \in DOMAIN v : (i \in DOMAIN q /\ v[i] = q[i]) \/ (i = Len(q) + 1 /\ v[i] = c)
  BY AppendCmd
<1>2. DOMAIN q = 1 .. Len(q) /\ Len(q) \in Nat
  BY AppendCmd
<1> HIDE DEF v
<1>3. Before(r, q, s) /\ (\A i \in DOMAIN r : r[i].src = s /\ c.src = s => r[i].n < c.n)
        => Before(r, v, s)
  BY <1>1 DEF Before
<1>4. Before(q, r, s) /\ (\A i \in DOMAIN r : r[i].src = s /\ c.src = s => c.n < r[i].n)
        => Before(v, r, s)
  BY <1>1 DEF Before
<1>5. Rising(q, s) /\ (\A i \in DOMAIN q : q[i].src = s /\ c.src = s => q[i].n < c.n)
        => Rising(v, s)
  BY <1>1, <1>2 DEF Rising
<1> QED
  BY <1>3, <1>4, <1>5 DEF v

LEMMA RestFact ==
  ASSUME NEW q \in Seq(Cmds), q # <<>>, NEW s
  PROVE  /\ Rising(q, s) => Rising(Tail(q), s)
         /\ \A r : Before(r, q, s) => /\ Before(r, Tail(q), s)
                                    /\ \A i \in DOMAIN r :
                                         r[i].src = s /\ Head(q).src = s => r[i].n < Head(q).n
         /\ \A r : Before(q, r, s) => /\ Before(Tail(q), r, s)
                                    /\ \A i \in DOMAIN r :
                                         r[i].src = s /\ Head(q).src = s => Head(q).n < r[i].n
<1> DEFINE t == Tail(q)
<1>1. /\ 1 \in DOMAIN q /\ Head(q) = q[1]
      /\ \A i \in DOMAIN t : i \in Nat \ {0} /\ i + 1 \in DOMAIN q /\ t[i] = q[i + 1]
  BY TailCmd
<1> HIDE DEF t
<1> QED
  BY <1>1 DEF t, Rising, Before

LEMMA EmptyFact ==
  ASSUME NEW q, NEW s
  PROVE  Rising(<<>>, s) /\ Before(<<>>, q, s) /\ Before(q, <<>>, s)
<1>1. DOMAIN <<>> = {}
  BY EmptySeq
<1> QED
  BY <1>1 DEF Rising, Before

-----------------------------------------------------------------------------
(* Five queues in a row, as in Way.                                         *)

Rows == [1 .. 5 -> Seq(Cmds)]

\* From row W to row V the head of queue l is moved to the end of queue k,
\* with nothing between; c is put into queue k.
Moves(W, V, k, l) ==
  /\ W[l] # <<>>
  /\ \A m \in 1 .. 5 : k < m /\ m < l => W[m] = <<>>
  /\ V[k] = Append(W[k], Head(W[l])) /\ V[l] = Tail(W[l])
  /\ \A m \in 1 .. 5 \ {k, l} : V[m] = W[m]
Puts(W, V, k, c) == V[k] = Append(W[k], c) /\ \A m \in 1 .. 5 \ {k} : V[m] = W[m]

\* The commands stay in order when one moves.
LEMMA Moved ==
  ASSUME NEW W \in Rows, NEW V, NEW s, NEW k \in 1 .. 5, NEW l \in 1 .. 5, k < l,
         InOrder(W, s), Moves(W, V, k, l)
  PROVE  /\ InOrder(V, s)
         /\ \A x : Somewhere(W, x) => Somewhere(V, x)
<1> USE DEF Moves
<1> W[k] \in Seq(Cmds) /\ W[l] \in Seq(Cmds)
  BY DEF Rows
<1>0. Head(W[l]) \in Cmds
  BY TailCmd
<1>1. Rising(V[k], s) /\ Rising(V[l], s) /\ Before(V[k], V[l], s)
  <2>1. Rising(W[k], s) /\ Rising(W[l], s) /\ Before(W[k], W[l], s)
    BY DEF InOrder
  <2>2. /\ Rising(Append(W[k], Head(W[l])), s) /\ Rising(Tail(W[l]), s)
        /\ Before(Append(W[k], Head(W[l])), Tail(W[l]), s)
    BY <2>1, MoveFact
  <2> QED
    BY <2>2
<1>2. ASSUME NEW m \in 1 .. 5 \ {k, l}
      PROVE  /\ m < k => Before(V[m], V[k], s)
             /\ k < m => Before(V[k], V[m], s)
             /\ m < l => Before(V[m], V[l], s)
             /\ l < m => Before(V[l], V[m], s)
  <2>1. CASE m < k
    <3>1. Before(V[m], W[k], s) /\ Before(V[m], W[l], s)
      BY <2>1 DEF InOrder
    <3>2. /\ Before(V[m], V[l], s)
          /\ \A i \in DOMAIN V[m] :
               V[m][i].src = s /\ Head(W[l]).src = s => V[m][i].n < Head(W[l]).n
      BY <3>1, RestFact
    <3>4. Before(V[m], V[k], s)
      BY <1>0, <3>1, <3>2, BeforeFact
    <3> QED
      BY <2>1, <3>2, <3>4
  <2>2. CASE k < m /\ m < l
    BY <2>2, EmptyFact
  <2>3. CASE l < m
    <3>1. Before(W[k], V[m], s) /\ Before(W[l], V[m], s)
      BY <2>3 DEF InOrder
    <3>2. /\ Before(V[l], V[m], s)
          /\ \A i \in DOMAIN V[m] :
               V[m][i].src = s /\ Head(W[l]).src = s => Head(W[l]).n < V[m][i].n
      BY <3>1, RestFact
    <3>3. Before(V[k], V[m], s)
      <4> DEFINE h == Head(W[l])
                 q == V[m]
      <4>1. /\ Before(W[k], q, s)
            /\ \A i \in DOMAIN q : q[i].src = s /\ h.src = s => h.n < q[i].n
        BY <3>1, <3>2
      <4> HIDE DEF h, q
      <4>2. Before(Append(W[k], h), q, s)
        BY <1>0, <4>1, BeforeFact DEF h
      <4> QED
        BY <4>2 DEF h, q
    <3> QED
      BY <2>3, <3>2, <3>3
  <2> QED
    BY <2>1, <2>2, <2>3
<1>a. ASSUME NEW m \in 1 .. 5, NEW n \in m + 1 .. 5
      PROVE  Before(V[m], V[n], s)
  <2>1. CASE m \notin {k, l} /\ n \notin {k, l}
    BY <2>1 DEF InOrder
  <2>2. CASE m = k /\ n = l
    BY <1>1, <2>2
  <2>a. n \in 1 .. 5 /\ m < n
    OBVIOUS
  <2>3. CASE m \notin {k, l} /\ n \in {k, l}
    <3>1. m \in 1 .. 5 \ {k, l}
      BY <2>3
    <3> QED
      BY <1>2, <2>3, <2>a, <3>1
  <2>4. CASE m \in {k, l} /\ n \notin {k, l}
    <3>1. n \in 1 .. 5 \ {k, l}
      BY <2>4, <2>a
    <3> QED
      BY <1>2, <2>4, <2>a, <3>1
  <2> QED
    BY <2>1, <2>2, <2>3, <2>4
<1>b. ASSUME NEW m \in 1 .. 5
      PROVE  Rising(V[m], s)
  BY <1>1 DEF InOrder
<1>3. InOrder(V, s)
  BY <1>a, <1>b DEF InOrder
<1>4. ASSUME NEW c, Somewhere(W, c) PROVE Somewhere(V, c)
  <2> PICK m \in 1 .. 5 : Has(W[m], c)
    BY <1>4 DEF Somewhere
  <2>1. Has(W[k], c) \/ c = Head(W[l]) => Has(V[k], c)
    BY <1>0, HasAppend
  <2>2. Has(W[l], c) => Has(V[l], c) \/ c = Head(W[l])
    BY HasTail
  <2> QED
    BY <2>1, <2>2 DEF Somewhere
<1> QED
  BY <1>3, <1>4

\* A command of somebody else is put into queue k.
LEMMA Foreign ==
  ASSUME NEW W \in Rows, NEW V, NEW s, NEW k \in 1 .. 5, NEW c \in Cmds,
         InOrder(W, s), c.src # s, Puts(W, V, k, c)
  PROVE  /\ InOrder(V, s)
         /\ \A x : Somewhere(W, x) => Somewhere(V, x)
<1> USE DEF Puts
<1> W[k] \in Seq(Cmds)
  BY DEF Rows
<1>1. /\ Rising(W[k], s) => Rising(V[k], s)
      /\ \A m \in 1 .. 5 : Before(W[m], W[k], s) => Before(W[m], V[k], s)
      /\ \A m \in 1 .. 5 : Before(W[k], W[m], s) => Before(V[k], W[m], s)
  BY BeforeFact
<1>2. \A x : Has(W[k], x) => Has(V[k], x)
  BY HasAppend
<1>3. ASSUME NEW m \in 1 .. 5, NEW n \in m + 1 .. 5
      PROVE  Before(V[m], V[n], s)
  <2>0. n \in 1 .. 5 /\ m < n /\ Before(W[m], W[n], s)
    BY DEF InOrder
  <2>1. CASE m = k
    <3>1. V[n] = W[n] /\ Before(W[k], W[n], s) /\ k < n
      BY <2>0, <2>1
    <3> QED
      BY <1>1, <2>0, <2>1, <3>1
  <2>2. CASE n = k
    <3>1. V[m] = W[m] /\ Before(W[m], W[k], s) /\ m < k
      BY <2>0, <2>2
    <3> QED
      BY <1>1, <2>2, <3>1
  <2>3. CASE m # k /\ n # k
    BY <2>3 DEF InOrder
  <2> QED
    BY <2>1, <2>2, <2>3
<1>4. ASSUME NEW m \in 1 .. 5
      PROVE  Rising(V[m], s)
  BY <1>1 DEF InOrder
<1>5. InOrder(V, s)
  BY <1>3, <1>4 DEF InOrder
<1> QED
  BY <1>2, <1>5 DEF Somewhere

\* A new command is put into queue k, behind all others of its sender.
LEMMA Added ==
  ASSUME NEW W \in Rows, NEW V, NEW s, NEW k \in 1 .. 5, NEW c \in Cmds,
         InOrder(W, s), Puts(W, V, k, c),
         \A m \in 1 .. 5 : \A i \in DOMAIN W[m] : W[m][i].src = s => m <= k /\ W[m][i].n < c.n
  PROVE  /\ InOrder(V, s)
         /\ \A x : Somewhere(W, x) \/ x = c => Somewhere(V, x)
<1> USE DEF Puts
<1> W[k] \in Seq(Cmds)
  BY DEF Rows
<1>1. Rising(V[k], s)
  BY BeforeFact DEF InOrder
<1>2. ASSUME NEW m \in 1 .. 5
      PROVE  /\ m < k => Before(W[m], V[k], s)
             /\ k < m => Before(V[k], W[m], s)
  <2>1. CASE m < k
    <3>1. \A i \in DOMAIN W[m] : W[m][i].src = s => W[m][i].n < c.n
      OBVIOUS
    <3>2. Before(W[m], W[k], s)
      BY <2>1 DEF InOrder
    <3>3. Before(W[m], V[k], s)
      BY <3>1, <3>2, BeforeFact
    <3> QED
      BY <2>1, <3>3
  <2>2. CASE k < m
    <3>1. \A i \in DOMAIN W[m] : W[m][i].src # s
      BY <2>2
    <3> QED
      BY <2>2, <3>1 DEF Before
  <2> QED
    BY <2>1, <2>2
<1>3. \A x : Has(W[k], x) \/ x = c => Has(V[k], x)
  BY HasAppend
<1>4. ASSUME NEW m \in 1 .. 5, NEW n \in m + 1 .. 5
      PROVE  Before(V[m], V[n], s)
  <2>0. n \in 1 .. 5 /\ m < n /\ Before(W[m], W[n], s)
    BY DEF InOrder
  <2>1. CASE m = k
    <3>1. V[n] = W[n] /\ Before(W[k], W[n], s) /\ k < n
      BY <2>0, <2>1
    <3> QED
      BY <1>2, <2>0, <2>1, <3>1
  <2>2. CASE n = k
    <3>1. V[m] = W[m] /\ Before(W[m], W[k], s) /\ m < k
      BY <2>0, <2>2
    <3> QED
      BY <1>2, <2>2, <3>1
  <2>3. CASE m # k /\ n # k
    BY <2>3 DEF InOrder
  <2> QED
    BY <2>1, <2>2, <2>3
<1>5. ASSUME NEW m \in 1 .. 5
      PROVE  Rising(V[m], s)
  BY <1>1 DEF InOrder
<1>6. InOrder(V, s)
  BY <1>4, <1>5 DEF InOrder
<1> QED
  BY <1>3, <1>6 DEF Somewhere

\* Queue k loses its head, or everything.
LEMMA Dropped ==
  ASSUME NEW W \in Rows, NEW V, NEW s, NEW k \in 1 .. 5, InOrder(W, s),
         V[k] = <<>> \/ (W[k] # <<>> /\ V[k] = Tail(W[k])),
         \A m \in 1 .. 5 \ {k} : V[m] = W[m]
  PROVE  InOrder(V, s)
<1> W[k] \in Seq(Cmds)
  BY DEF Rows
<1>1. /\ Rising(W[k], s) => Rising(V[k], s)
      /\ \A m \in 1 .. 5 : Before(W[m], W[k], s) => Before(W[m], V[k], s)
      /\ \A m \in 1 .. 5 : Before(W[k], W[m], s) => Before(V[k], W[m], s)
  BY EmptyFact, RestFact
<1> QED
  BY <1>1 DEF InOrder

\* The last queue, all of it, takes the place of the empty one before it.
LEMMA Replaced ==
  ASSUME NEW W \in Rows, NEW V, NEW s, InOrder(W, s),
         V[4] = W[5], V[5] = <<>>, \A m \in 1 .. 3 : V[m] = W[m]
  PROVE  InOrder(V, s)
BY EmptyFact DEF InOrder

-----------------------------------------------------------------------------
(* Types.                                                                   *)

LEMMA SetFact ==
  /\ Gui \notin CmdTools /\ CmdTools \subseteq Tools /\ TlmTools \subseteq Tools
  /\ CmdTools \subseteq Senders /\ Gui \in Senders /\ TlmTools \subseteq Dests /\ Remotes \subseteq Dests
BY ToolAssumption DEF Tools, Senders, Dests

LEMMA InitType == Init => TypeOK
<1> SUFFICES ASSUME Init PROVE TypeOK
    OBVIOUS
<1>1. <<>> \in Seq(CmdTools) /\ <<>> \in Seq(Cmds) /\ <<>> \in Seq(Nat) /\ <<>> \in Seq(Ctrls) /\ Len(<<>>) = 0
  BY EmptySeq
<1>2. (CHOOSE t \in Tools : TRUE) \in Tools
  BY ToolAssumption
<1>3. /\ inbox \in [CmdTools -> Seq(Cmds)] /\ got \in [Dests -> Seq(Nat)]
      /\ sources \in Seq(CmdTools) /\ Len(sources) = 0
  BY <1>1 DEF Init
<1>4. /\ since \in [Dests -> Nat] /\ running \in [Tools -> Nat] /\ launches \in [Tools -> Nat]
      /\ count \in [Senders -> Nat] /\ first \in [Senders -> Nat]
  BY DEF Init
<1>5. /\ campaign \in Campaigns /\ sourceQueue \in Seq(Cmds) /\ cmdQueue \in Seq(Cmds) /\ sent \in Seq(Cmds)
      /\ lost \in Seq(Cmds) /\ orphan \in Seq(Cmds) /\ ctrlBox \in Seq(Ctrls) /\ ctrlQueue \in Seq(Ctrls)
      /\ dests \subseteq Dests /\ launching \in Tools
  BY <1>1, <1>2 DEF Init
<1>6. /\ mutex = "none" /\ connector = "ready" /\ cfsAddr = "local" /\ enabled \in BOOLEAN /\ pc = "sources"
      /\ size = 0 /\ at = 1 /\ replaced = FALSE /\ arrived = 0 /\ taken = 0 /\ gui = "loop"
  BY DEF Init
<1>7. /\ size \in 0 .. Len(sources) /\ at \in 1 .. size + 1 /\ (pc = "read" => at <= size)
      /\ arrived \in Nat /\ taken \in 0 .. arrived
      /\ mutex \in {"none", "router", "connect"} /\ connector \in {"ready", "ended", "dead"}
      /\ cfsAddr \in {"local", "remote"} /\ gui \in {"loop", "adding", "closed", "dead"}
      /\ pc \in {"sources", "read", "cmds", "tlm", "lock", "fanout", "ctrl", "ctrlcmds", "stopped"}
  BY <1>3, <1>6
<1>8. replaced \in BOOLEAN /\ (replaced => pc = "read")
  BY <1>6, Zenon
<1> QED
  BY <1>3, <1>4, <1>5, <1>6, <1>7, <1>8, Zenon DEF TypeOK

\* The source that is read.
LEMMA SourceFact ==
  ASSUME TypeOK, pc = "read"
  PROVE  /\ at \in 1 .. Len(sources) /\ sources[at] \in CmdTools
         /\ inbox[sources[at]] \in Seq(Cmds)
<1>1. at \in 1 .. Len(sources)
  BY LenProperties DEF TypeOK
<1>2. sources[at] \in CmdTools
  BY <1>1, ElementOfSeq DEF TypeOK
<1> QED
  BY <1>1, <1>2 DEF TypeOK

LEMMA AddType ==
  ASSUME TypeOK, ThreadOK, NEW d \in Dests, AddDest(d)
  PROVE  dests' \subseteq Dests /\ got' \in [Dests -> Seq(Nat)] /\ since' \in [Dests -> Nat]
<1>1. <<>> \in Seq(Nat)
  BY EmptySeq
<1>2. taken \in Nat /\ (pc = "lock" => taken - 1 \in Nat)
  BY DEF TypeOK, ThreadOK
<1> QED
  BY <1>1, <1>2 DEF AddDest, TypeOK

LEMMA AddSourceType ==
  ASSUME TypeOK, NEW t \in CmdTools, AddSource(t)
  PROVE  /\ sources' \in Seq(CmdTools) /\ Len(sources) \in Nat /\ Len(sources) <= Len(sources')
         /\ \A i \in 1 .. Len(sources) : sources'[i] = sources[i]
         /\ inbox' \in [CmdTools -> Seq(Cmds)] /\ orphan' \in Seq(Cmds)
         /\ first' \in [Senders -> Nat] /\ replaced' \in BOOLEAN /\ (replaced' => pc = "read")
<1>1. /\ sources' \in Seq(CmdTools) /\ Len(sources) \in Nat /\ Len(sources) <= Len(sources')
      /\ \A i \in 1 .. Len(sources) : sources'[i] = sources[i]
  BY AppendProperties, LenProperties DEF TypeOK, AddSource
<1>2. inbox' \in [CmdTools -> Seq(Cmds)] /\ orphan' \in Seq(Cmds)
  BY EmptySeq DEF TypeOK, AddSource
<1>3. first' \in [Senders -> Nat]
  BY SetFact DEF TypeOK, AddSource
<1>4. replaced' \in BOOLEAN /\ (replaced' => pc = "read")
  BY DEF TypeOK, AddSource
<1> QED
  BY <1>1, <1>2, <1>3, <1>4

\* The types by the party whose state they are of.
TypeRouter ==
  /\ pc \in {"sources", "read", "cmds", "tlm", "lock", "fanout", "ctrl", "ctrlcmds", "stopped"}
  /\ size \in 0 .. Len(sources) /\ at \in 1 .. size + 1 /\ (pc = "read" => at <= size)
  /\ orphan \in Seq(Cmds) /\ replaced \in BOOLEAN /\ (replaced => pc = "read")
TypeTlm ==
  /\ dests \subseteq Dests /\ mutex \in {"none", "router", "connect"}
  /\ connector \in {"ready", "ended", "dead"}
  /\ arrived \in Nat /\ taken \in 0 .. arrived
  /\ got \in [Dests -> Seq(Nat)] /\ since \in [Dests -> Nat]
TypeQueues ==
  /\ inbox \in [CmdTools -> Seq(Cmds)]
  /\ sourceQueue \in Seq(Cmds) /\ cmdQueue \in Seq(Cmds) /\ sent \in Seq(Cmds) /\ lost \in Seq(Cmds)
TypeCtrl ==
  cfsAddr \in {"local", "remote"} /\ ctrlBox \in Seq(Ctrls) /\ ctrlQueue \in Seq(Ctrls)
TypeTools ==
  /\ sources \in Seq(CmdTools)
  /\ gui \in {"loop", "adding", "closed", "dead"} /\ launching \in Tools
  /\ running \in [Tools -> Nat] /\ launches \in [Tools -> Nat]
  /\ count \in [Senders -> Nat] /\ first \in [Senders -> Nat]
TypeRest == campaign \in Campaigns /\ enabled \in BOOLEAN

LEMMA TypeParts ==
  /\ TypeOK => TypeRouter /\ TypeTlm /\ TypeQueues /\ TypeCtrl /\ TypeTools /\ TypeRest
  /\ TypeRouter' /\ TypeTlm' /\ TypeQueues' /\ TypeCtrl' /\ TypeTools' /\ TypeRest' => TypeOK'
<1>1. TypeOK => TypeRouter /\ TypeTlm /\ TypeQueues /\ TypeCtrl /\ TypeTools /\ TypeRest
  BY Zenon DEF TypeOK, TypeRouter, TypeTlm, TypeQueues, TypeCtrl, TypeTools, TypeRest
<1>2. TypeRouter' /\ TypeTlm' /\ TypeQueues' /\ TypeCtrl' /\ TypeTools' /\ TypeRest' => TypeOK'
  BY Zenon DEF TypeOK, TypeRouter, TypeTlm, TypeQueues, TypeCtrl, TypeTools, TypeRest
<1> QED
  BY <1>1, <1>2

\* What a step leaves alone keeps its type.
LEMMA TypeSame ==
  ASSUME TypeOK
  PROVE  /\ UNCHANGED <<router, sources>> => TypeRouter'
         /\ UNCHANGED tlm => TypeTlm'
         /\ UNCHANGED queues => TypeQueues'
         /\ UNCHANGED ctrl => TypeCtrl'
         /\ UNCHANGED tools => TypeTools'
         /\ UNCHANGED <<campaign, enabled>> => TypeRest'
<1>1. UNCHANGED <<router, sources>> => TypeRouter'
  BY TypeParts DEF TypeRouter, router
<1>2. UNCHANGED tlm => TypeTlm'
  BY TypeParts DEF TypeTlm, tlm
<1>3. UNCHANGED queues => TypeQueues'
  BY TypeParts DEF TypeQueues, queues
<1>4. UNCHANGED ctrl => TypeCtrl'
  BY TypeParts DEF TypeCtrl, ctrl
<1>5. UNCHANGED tools => TypeTools'
  BY TypeParts DEF TypeTools, tools
<1>6. UNCHANGED <<campaign, enabled>> => TypeRest'
  BY TypeParts DEF TypeRest
<1> QED
  BY <1>1, <1>2, <1>3, <1>4, <1>5, <1>6

LEMMA TypeStep ==
  ASSUME TypeOK, MutexHeld, ThreadOK, [Next]_vars
  PROVE  TypeOK'
<1> USE SetFact
<1>1. CASE NextSource
  BY <1>1 DEF TypeOK, NextSource, router, tlm, queues, ctrl, tools
<1>2. CASE SourcesChanged
  BY <1>2 DEF TypeOK, SourcesChanged, Stop, router, tlm, queues, ctrl, tools
<1>3. CASE ReadCmd
  <2>1. sources[at] \in CmdTools /\ inbox[sources[at]] \in Seq(Cmds)
    BY <1>3, SourceFact DEF TypeOK, ReadCmd
  <2>2. Head(inbox[sources[at]]) \in Cmds /\ Tail(inbox[sources[at]]) \in Seq(Cmds)
    BY <1>3, <2>1, TailCmd DEF ReadCmd
  <2>3. sourceQueue' \in Seq(Cmds)
    BY <1>3, <2>2, AppendCmd DEF TypeOK, ReadCmd
  <2>4. inbox' \in [CmdTools -> Seq(Cmds)]
    BY <1>3, <2>1, <2>2 DEF TypeOK, ReadCmd
  <2> QED
    BY <1>3, <2>1, <2>2, <2>3, <2>4 DEF TypeOK, ReadCmd, router, tlm, queues, ctrl, tools
<1>4. CASE ReadReplaced
  <2>1. Head(orphan) \in Cmds /\ Tail(orphan) \in Seq(Cmds)
    BY <1>4, TailCmd DEF TypeOK, ReadReplaced
  <2>2. sourceQueue' \in Seq(Cmds) /\ orphan' \in Seq(Cmds)
    BY <1>4, <2>1, AppendCmd DEF TypeOK, ReadReplaced
  <2> QED
    BY <1>4, <2>1, <2>2 DEF TypeOK, ReadReplaced, router, tlm, queues, ctrl, tools
<1>5. CASE ReadTimeout
  <2>1. at' \in 1 .. size' + 1 /\ size' \in 0 .. Len(sources')
    BY <1>5, LenProperties DEF TypeOK, ReadTimeout, tools
  <2> QED
    BY <1>5, <2>1 DEF TypeOK, ReadTimeout, router, tlm, queues, ctrl, tools
<1>6. CASE SendCmd
  <2>1. Head(cmdQueue) \in Cmds /\ Tail(cmdQueue) \in Seq(Cmds)
    BY <1>6, TailCmd DEF TypeOK, SendCmd
  <2>2. sent' \in Seq(Cmds) /\ cmdQueue' \in Seq(Cmds)
    BY <1>6, <2>1, AppendCmd DEF TypeOK, SendCmd
  <2> QED
    BY <1>6, <2>1, <2>2 DEF TypeOK, SendCmd, router, tlm, queues, ctrl, tools
<1>7. CASE SendCmdFails
  <2>1. cmdQueue' \in Seq(Cmds) /\ Head(cmdQueue) \in Cmds
    BY <1>7, TailCmd DEF TypeOK, SendCmdFails
  <2>2. lost' \in Seq(Cmds)
    BY <1>7, <2>1 DEF SendCmdFails
  <2> QED
    BY <1>7, <2>1, <2>2 DEF TypeOK, SendCmdFails, Stop, router, tlm, queues, ctrl, tools
<1>8. CASE CmdsSent
  BY <1>8 DEF TypeOK, CmdsSent, router, tlm, queues, ctrl, tools
<1>9. CASE RecvTlm
  <2>1. pc = "tlm" /\ pc' = "lock" /\ taken' \in 0 .. arrived'
    BY <1>9 DEF TypeOK, RecvTlm
  <2>2. TypeRouter' /\ TypeTlm'
    BY <1>9, <2>1, TypeParts DEF TypeRouter, TypeTlm, RecvTlm, tools
  <2> QED
    BY <1>9, <2>2, TypeSame, TypeParts DEF RecvTlm
<1>10. CASE TlmClosed
  BY <1>10 DEF TypeOK, TlmClosed, Stop, router, tlm, queues, ctrl, tools
<1>11. CASE AcquireMutex
  BY <1>11 DEF TypeOK, AcquireMutex, router, tlm, queues, ctrl, tools
<1>12. CASE SendTlm
  <2>1. got' \in [Dests -> Seq(Nat)]
    <3> PICK d \in todo : got' = [got EXCEPT ![d] = Append(got[d], taken)]
      BY <1>12 DEF SendTlm
    <3>1. d \in Dests /\ taken \in Nat /\ got \in [Dests -> Seq(Nat)]
      BY DEF TypeOK, MutexHeld
    <3>2. Append(got[d], taken) \in Seq(Nat)
      BY <3>1, AppendProperties
    <3> QED
      BY <3>1, <3>2
  <2> QED
    BY <1>12, <2>1 DEF TypeOK, SendTlm, router, tlm, queues, ctrl, tools
<1>13. CASE SendTlmFails
  BY <1>13 DEF TypeOK, SendTlmFails, Stop, router, tlm, queues, ctrl, tools
<1>14. CASE ReleaseMutex
  BY <1>14 DEF TypeOK, ReleaseMutex, router, tlm, queues, ctrl, tools
<1>15. CASE ReadCtrl
  <2>1. Head(ctrlBox) \in Ctrls /\ Tail(ctrlBox) \in Seq(Ctrls)
    BY <1>15, TailFact DEF TypeOK, ReadCtrl
  <2>2. ctrlBox' \in Seq(Ctrls) /\ ctrlQueue' \in Seq(Ctrls)
    BY <1>15, <2>1, AppendProperties DEF TypeOK, ReadCtrl
  <2> QED
    BY <1>15, <2>2 DEF TypeOK, ReadCtrl, router, tlm, queues, ctrl, tools
<1>16. CASE CtrlTimeout
  BY <1>16 DEF TypeOK, CtrlTimeout, router, tlm, queues, ctrl, tools
<1>17. CASE RemoveDest
  <2>1. ctrlQueue' \in Seq(Ctrls) /\ dests' \subseteq Dests
    BY <1>17, TailFact DEF TypeOK, RemoveDest
  <2> QED
    BY <1>17, <2>1 DEF TypeOK, RemoveDest, router, tlm, queues, ctrl, tools
<1>18. CASE SetCfsIpAddr
  <2>1. Head(ctrlQueue) \in Ctrls /\ ctrlQueue' \in Seq(Ctrls)
    BY <1>18, TailFact DEF TypeOK, SetCfsIpAddr
  <2>2. cfsAddr' \in {"local", "remote"}
    BY <1>18, <2>1 DEF Ctrls, SetCfsIpAddr
  <2> QED
    BY <1>18, <2>1, <2>2 DEF TypeOK, SetCfsIpAddr, router, tlm, queues, ctrl, tools
<1>19. CASE PassEnds
  <2>1. Len(sources) \in Nat
    BY LenProperties DEF TypeOK
  <2>2. at' \in 1 .. size' + 1 /\ size' \in 0 .. Len(sources')
    <3>1. CASE enabled
      BY <1>19, <2>1, <3>1 DEF PassEnds, Stop, tools
    <3>2. CASE ~enabled
      BY <1>19, <2>1, <3>2 DEF TypeOK, PassEnds, Stop, tools
    <3> QED
      BY <3>1, <3>2
  <2> QED
    <3>1. pc' \in {"sources", "stopped"} /\ enabled' \in BOOLEAN
      BY <1>19 DEF TypeOK, PassEnds, Stop
    <3>2. UNCHANGED <<orphan, replaced, todo>>
      BY <1>19 DEF PassEnds, Stop
    <3> QED
      BY <1>19, <2>2, <3>1, <3>2 DEF TypeOK, PassEnds, tlm, queues, ctrl, tools
<1>20. CASE TlmTimeout
  BY <1>20 DEF TypeOK, TlmTimeout, router, tlm, queues, ctrl, tools
<1>21. CASE FinishLaunch
  <2>1. launching \in TlmTools => launching \in Dests
    BY SetFact
  <2>2. dests' \subseteq Dests /\ got' \in [Dests -> Seq(Nat)] /\ since' \in [Dests -> Nat]
    BY <1>21, <2>1, AddType DEF TypeOK, FinishLaunch
  <2>3. running' \in [Tools -> Nat] /\ launches' \in [Tools -> Nat]
    <3>1. running \in [Tools -> Nat] /\ launches \in [Tools -> Nat] /\ launching \in Tools
      BY DEF TypeOK
    <3> QED
      BY <1>21, <3>1 DEF FinishLaunch
  <2>4. /\ gui' = "loop"
        /\ UNCHANGED <<campaign, router, arrived, taken, mutex, connector, queues, ctrl, launching, count, first,
                       sources, enabled>>
    BY <1>21 DEF FinishLaunch
  <2> QED
    <3>1. TypeTlm'
      BY <2>2, <2>4, TypeParts DEF TypeTlm
    <3>2. TypeTools'
      BY <2>3, <2>4, TypeParts DEF TypeTools
    <3> QED
      BY <2>4, <3>1, <3>2, TypeSame, TypeParts
<1>22. CASE RouteCmd
  <2>1. Head(sourceQueue) \in Cmds /\ Tail(sourceQueue) \in Seq(Cmds)
    BY <1>22, TailCmd DEF TypeOK, RouteCmd
  <2>2. sourceQueue' \in Seq(Cmds) /\ cmdQueue' \in Seq(Cmds)
    BY <1>22, <2>1, AppendCmd DEF TypeOK, RouteCmd
  <2> QED
    <3>1. TypeQueues'
      BY <1>22, <2>2, TypeParts DEF TypeQueues, RouteCmd
    <3>2. UNCHANGED sources
      BY <1>22 DEF RouteCmd, tools
    <3> QED
      BY <1>22, <3>1, <3>2, TypeSame, TypeParts DEF RouteCmd
<1>23. CASE GuiCommand
  <2>1. count[Gui] \in Nat /\ count' \in [Senders -> Nat]
    <3>1. count \in [Senders -> Nat] /\ Gui \in Senders
      BY DEF TypeOK
    <3> QED
      BY <1>23, <3>1 DEF GuiCommand
  <2>2. [src |-> Gui, n |-> count[Gui] + 1] \in Cmds
    BY <2>1 DEF Cmds
  <2>3. cmdQueue' \in Seq(Cmds)
    BY <1>23, <2>2, AppendCmd DEF TypeOK, GuiCommand
  <2> QED
    <3>1. TypeQueues'
      BY <1>23, <2>3, TypeParts DEF TypeQueues, GuiCommand
    <3>2. TypeTools'
      BY <1>23, <2>1, TypeParts DEF TypeTools, GuiCommand
    <3> QED
      BY <1>23, <3>1, <3>2, TypeSame, TypeParts DEF GuiCommand
<1>24. CASE Shutdown
  BY <1>24 DEF TypeOK, Shutdown, router, tlm, queues, ctrl, tools
<1>25. CASE TlmArrives
  <2>1. arrived' \in Nat /\ taken' \in 0 .. arrived'
    BY <1>25 DEF TypeOK, TlmArrives
  <2>2. UNCHANGED <<campaign, router, got, since, dests, mutex, connector, queues, ctrl, tools, enabled>>
    BY <1>25 DEF TlmArrives
  <2> QED
    <3>1. TypeTlm'
      BY <2>1, <2>2, TypeParts DEF TypeTlm
    <3>2. UNCHANGED sources
      BY <2>2 DEF tools
    <3> QED
      BY <2>2, <3>1, <3>2, TypeSame, TypeParts
<1>26. ASSUME NEW t \in Tools, Launch(t) PROVE TypeOK'
  <2>1. t \in CmdTools => /\ sources' \in Seq(CmdTools) /\ Len(sources) \in Nat /\ Len(sources) <= Len(sources')
                       /\ inbox' \in [CmdTools -> Seq(Cmds)] /\ orphan' \in Seq(Cmds)
                       /\ first' \in [Senders -> Nat] /\ replaced' \in BOOLEAN /\ (replaced' => pc = "read")
    BY <1>26, AddSourceType DEF Launch
  <2>2. CASE t \in CmdTools
    <3>1. UNCHANGED <<campaign, pc, at, size, todo, tlm, sourceQueue, cmdQueue, sent, lost, ctrl, running,
                      launches, count, enabled>> /\ gui' = "adding" /\ launching' = t
      BY <1>26 DEF Launch
    <3>2. at' \in 1 .. size' + 1 /\ size' \in 0 .. Len(sources') /\ (pc' = "read" => at' <= size')
      BY <2>1, <2>2, <3>1, LenProperties DEF TypeOK
    <3> QED
      <4>1. TypeRouter' /\ TypeQueues'
        BY <2>1, <2>2, <3>1, <3>2, TypeParts DEF TypeRouter, TypeQueues
      <4>2. TypeTools'
        BY <2>1, <2>2, <3>1, TypeParts DEF TypeTools
      <4> QED
        BY <3>1, <4>1, <4>2, TypeSame, TypeParts
  <2>3. CASE t \notin CmdTools
    <3>1. UNCHANGED <<campaign, pc, at, size, todo, tlm, sourceQueue, cmdQueue, sent, lost, ctrl, running,
                      launches, count, enabled, sources, inbox, replaced, orphan, first>>
          /\ gui' = "adding" /\ launching' = t
      BY <1>26, <2>3 DEF Launch
    <3> QED
      <4>1. TypeRouter' /\ TypeQueues'
        BY <3>1, TypeParts DEF TypeRouter, TypeQueues
      <4>2. TypeTools'
        BY <3>1, TypeParts DEF TypeTools
      <4> QED
        BY <3>1, <4>1, <4>2, TypeSame, TypeParts
  <2> QED
    BY <2>2, <2>3
<1>27. ASSUME NEW t \in Tools, BindFails(t) PROVE TypeOK'
  <2>1. TypeTools'
    BY <1>27, TypeParts DEF TypeTools, BindFails
  <2> QED
    BY <1>27, <2>1, TypeSame, TypeParts DEF BindFails
<1>28. ASSUME NEW t \in Tools, CloseTool(t) PROVE TypeOK'
  <2>1. ctrlBox' \in Seq(Ctrls)
    <3>1. t \in TlmTools => [cmd |-> "ClosePort", arg |-> t] \in Ctrls
      BY DEF Ctrls
    <3> QED
      BY <1>28, <3>1, AppendProperties DEF TypeOK, CloseTool
  <2> QED
    <3>1. running' \in [Tools -> Nat]
      <4>1. running \in [Tools -> Nat] /\ running[t] \in Nat
        BY DEF TypeOK
      <4> QED
        BY <1>28, <4>1 DEF CloseTool
    <3>2. UNCHANGED <<campaign, router, tlm, queues, ctrlQueue, cfsAddr, gui, launching, launches, count,
                      first, sources, enabled>>
      BY <1>28 DEF CloseTool
    <3> QED
      <4>1. TypeTools'
        BY <3>1, <3>2, TypeParts DEF TypeTools
      <4>2. TypeCtrl'
        BY <2>1, <3>2, TypeParts DEF TypeCtrl
      <4> QED
        BY <3>2, <4>1, <4>2, TypeSame, TypeParts
<1>29. ASSUME NEW t \in CmdTools, ToolSends(t) PROVE TypeOK'
  <2>1. count[t] \in Nat /\ t \in Senders
    BY SetFact DEF TypeOK
  <2>2. [src |-> t, n |-> count[t] + 1] \in Cmds
    BY <2>1 DEF Cmds
  <2>3. inbox' \in [CmdTools -> Seq(Cmds)]
    BY <1>29, <2>2, AppendCmd DEF TypeOK, ToolSends
  <2>4. count' \in [Senders -> Nat]
    <3>1. count \in [Senders -> Nat] /\ count' = [count EXCEPT ![t] = count[t] + 1]
      BY <1>29 DEF TypeOK, ToolSends
    <3> QED
      BY <2>1, <3>1
  <2> QED
    <3>1. UNCHANGED <<campaign, router, tlm, sourceQueue, cmdQueue, sent, lost, ctrl, gui, launching, running,
                      launches, first, sources, enabled>>
      BY <1>29 DEF ToolSends
    <3> QED
      <4>1. TypeTools'
        BY <2>4, <3>1, TypeParts DEF TypeTools
      <4>2. TypeQueues'
        BY <2>3, <3>1, TypeParts DEF TypeQueues
      <4> QED
        BY <3>1, <4>1, <4>2, TypeSame, TypeParts
<1>30. ASSUME NEW t \in CmdTools, SetTarget(t) PROVE TypeOK'
  <2>1. ctrlBox' \in Seq(Ctrls)
    <3>1. [cmd |-> "SetCfsIpAddr", arg |-> "remote"] \in Ctrls
      BY DEF Ctrls
    <3> QED
      BY <1>30, <3>1 DEF SetTarget
  <2>2. UNCHANGED <<campaign, router, tlm, queues, ctrlQueue, cfsAddr, tools, enabled>>
    BY <1>30 DEF SetTarget
  <2> QED
    <3>1. TypeCtrl'
      BY <2>1, <2>2, TypeParts DEF TypeCtrl
    <3>2. UNCHANGED sources
      BY <2>2 DEF tools
    <3> QED
      BY <2>2, <3>1, <3>2, TypeSame, TypeParts
<1>31. ASSUME NEW r \in Remotes, Connect(r) PROVE TypeOK'
  <2>1. dests' \subseteq Dests /\ got' \in [Dests -> Seq(Nat)] /\ since' \in [Dests -> Nat]
    BY <1>31, AddType DEF TypeOK, Connect
  <2> QED
    <3>1. TypeTlm'
      BY <1>31, <2>1, TypeParts DEF TypeTlm, Connect
    <3>2. UNCHANGED sources
      BY <1>31 DEF Connect, tools
    <3> QED
      BY <1>31, <3>1, <3>2, TypeSame, TypeParts DEF Connect
<1>32. CASE OtherCtrl
  <2>1. ctrlQueue' \in Seq(Ctrls)
    BY <1>32, TailFact DEF TypeOK, OtherCtrl
  <2>2. pc' \in {pc, "stopped"} /\ enabled' \in {enabled, FALSE} /\ UNCHANGED <<at, size, orphan, replaced, todo>>
    BY <1>32 DEF OtherCtrl, Stop, router
  <2>3. pc = "ctrlcmds" /\ UNCHANGED <<campaign, tlm, queues, ctrlBox, cfsAddr, tools>>
    BY <1>32 DEF OtherCtrl
  <2> QED
    <3>1. TypeCtrl'
      BY <2>1, <2>3, TypeParts DEF TypeCtrl
    <3>2. TypeRouter' /\ TypeRest'
      BY <2>2, <2>3, TypeParts DEF TypeRouter, TypeRest, tools
    <3> QED
      BY <2>3, <3>1, <3>2, TypeSame, TypeParts
<1>33. CASE ConnectFails
  BY <1>33 DEF TypeOK, ConnectFails, router, tlm, queues, ctrl, tools
<1>34. CASE StrayCtrl
  <2>1. Stray \in Ctrls
    BY DEF Stray, Ctrls
  <2>2. ctrlBox' \in Seq(Ctrls)
    BY <1>34, <2>1, AppendProperties DEF TypeOK, StrayCtrl
  <2>3. UNCHANGED <<campaign, router, tlm, queues, ctrlQueue, cfsAddr, tools, enabled>>
    BY <1>34 DEF StrayCtrl
  <2> QED
    <3>1. TypeCtrl'
      BY <2>2, <2>3, TypeParts DEF TypeCtrl
    <3>2. UNCHANGED sources
      BY <2>3 DEF tools
    <3> QED
      BY <2>3, <3>1, <3>2, TypeSame, TypeParts
<1>35. CASE UNCHANGED vars
  <2>1. UNCHANGED sources
    BY <1>35 DEF vars, tools
  <2> QED
    BY <1>35, <2>1, TypeSame, TypeParts DEF vars
<1> QED
  BY <1>1, <1>2, <1>3, <1>4, <1>5, <1>6, <1>7, <1>8, <1>9, <1>10, <1>11, <1>12, <1>13, <1>14,
     <1>15, <1>16, <1>17, <1>18, <1>19, <1>20, <1>21, <1>22, <1>23, <1>24, <1>25, <1>26, <1>27,
     <1>28, <1>29, <1>30, <1>31, <1>32, <1>33, <1>34, <1>35 DEF Next, Router

-----------------------------------------------------------------------------
(* The control port.                                                        *)

LEMMA CtrlQuiet ==
  ASSUME CtrlOK, UNCHANGED <<campaign, ctrlBox, ctrlQueue>>
  PROVE  CtrlOK'
BY DEF CtrlOK, Has

\* Steps that take the head of the queue.
LEMMA CtrlTaken ==
  ASSUME TypeOK, CtrlOK, ctrlQueue # <<>>, ctrlQueue' = Tail(ctrlQueue), UNCHANGED <<campaign, ctrlBox>>
  PROVE  CtrlOK'
<1>1. Has(ctrlQueue', Stray) => Has(ctrlQueue, Stray)
  BY HasTail DEF TypeOK
<1> QED
  BY <1>1 DEF CtrlOK, Has

\* Steps that put something on the port.
LEMMA CtrlPut ==
  ASSUME TypeOK, CtrlOK, NEW c \in Ctrls, ctrlBox' = Append(ctrlBox, c), UNCHANGED <<campaign, ctrlQueue>>,
         c = Stray => "ctrl" \in campaign.faults
  PROVE  CtrlOK'
<1>1. Has(ctrlBox', Stray) => Has(ctrlBox, Stray) \/ c = Stray
  BY HasAppend DEF TypeOK
<1> QED
  BY <1>1 DEF CtrlOK, Has

LEMMA CtrlStep ==
  ASSUME TypeOK, CtrlOK, [Next]_vars
  PROVE  CtrlOK'
<1>1. CASE NextSource \/ SourcesChanged \/ ReadCmd \/ ReadReplaced \/ ReadTimeout \/ SendCmd
  BY <1>1, CtrlQuiet DEF NextSource, SourcesChanged, ReadCmd, ReadReplaced, ReadTimeout, SendCmd, ctrl
<1>2. CASE SendCmdFails \/ CmdsSent \/ RecvTlm \/ TlmClosed \/ AcquireMutex \/ SendTlm \/ SendTlmFails
  BY <1>2, CtrlQuiet DEF SendCmdFails, CmdsSent, RecvTlm, TlmClosed, AcquireMutex, SendTlm, SendTlmFails, ctrl
<1>3. CASE ReleaseMutex \/ CtrlTimeout \/ PassEnds \/ TlmTimeout
  BY <1>3, CtrlQuiet DEF ReleaseMutex, CtrlTimeout, PassEnds, TlmTimeout, ctrl
<1>4. CASE FinishLaunch \/ RouteCmd \/ GuiCommand \/ Shutdown \/ TlmArrives \/ ConnectFails
  BY <1>4, CtrlQuiet DEF FinishLaunch, RouteCmd, GuiCommand, Shutdown, TlmArrives, ConnectFails, ctrl
<1>5. CASE ReadCtrl
  <2>1. ctrlBox \in Seq(Ctrls) /\ ctrlQueue \in Seq(Ctrls) /\ ctrlBox # <<>> /\ Head(ctrlBox) \in Ctrls
    BY <1>5, TailFact DEF TypeOK, ReadCtrl
  <2>2. ctrlBox' = Tail(ctrlBox) /\ ctrlQueue' = Append(ctrlQueue, Head(ctrlBox)) /\ campaign' = campaign
    BY <1>5 DEF ReadCtrl
  <2>3. Has(ctrlBox, Stray) <=> Has(ctrlBox', Stray) \/ Stray = Head(ctrlBox)
    BY <2>1, <2>2, HasTail
  <2>4. Has(ctrlQueue', Stray) <=> Has(ctrlQueue, Stray) \/ Stray = Head(ctrlBox)
    BY <2>1, <2>2, HasAppend
  <2> QED
    BY <2>2, <2>3, <2>4 DEF CtrlOK, Has
<1>6. CASE RemoveDest \/ SetCfsIpAddr \/ OtherCtrl
  BY <1>6, CtrlTaken DEF RemoveDest, SetCfsIpAddr, OtherCtrl
<1>7. CASE StrayCtrl
  <2>1. Stray \in Ctrls
    BY DEF Stray, Ctrls
  <2> QED
    BY <1>7, <2>1, CtrlPut DEF StrayCtrl
<1>8. ASSUME NEW t \in Tools, Launch(t) \/ BindFails(t)
      PROVE  CtrlOK'
  BY <1>8, CtrlQuiet DEF Launch, BindFails, ctrl
<1>9. ASSUME NEW t \in Tools, CloseTool(t)
      PROVE  CtrlOK'
  <2>1. CASE t \in TlmTools
    <3>1. Closing(t) \in Ctrls /\ Closing(t) # Stray
      BY <2>1 DEF Closing, Ctrls, Stray
    <3> QED
      BY <1>9, <2>1, <3>1, CtrlPut DEF CloseTool, Closing
  <2>2. CASE t \notin TlmTools
    BY <1>9, <2>2, CtrlQuiet DEF CloseTool
  <2> QED
    BY <2>1, <2>2
<1>10. ASSUME NEW t \in CmdTools, ToolSends(t)
       PROVE  CtrlOK'
  BY <1>10, CtrlQuiet DEF ToolSends, ctrl
<1>11. ASSUME NEW t \in CmdTools, SetTarget(t)
       PROVE  CtrlOK'
  <2>1. ~Has(ctrlBox', Stray)
    BY <1>11 DEF SetTarget, Has, Stray
  <2> QED
    BY <1>11, <2>1 DEF SetTarget, CtrlOK, Has
<1>12. ASSUME NEW r \in Remotes, Connect(r)
       PROVE  CtrlOK'
  BY <1>12, CtrlQuiet DEF Connect, ctrl
<1>13. CASE UNCHANGED vars
  BY <1>13, CtrlQuiet DEF vars, ctrl
<1> QED
  BY <1>1, <1>2, <1>3, <1>4, <1>5, <1>6, <1>7, <1>8, <1>9, <1>10, <1>11, <1>12, <1>13 DEF Next, Router

\* A datagram that is no command is only there if the campaign has such.
LEMMA OtherFact ==
  ASSUME TypeOK, CtrlOK, OtherCtrl
  PROVE  "ctrl" \in campaign.faults
<1>1. ctrlQueue # <<>> /\ ctrlQueue \in Seq(Ctrls) /\ Head(ctrlQueue) \in Ctrls /\ Head(ctrlQueue).cmd = "Other"
  BY TailFact DEF TypeOK, OtherCtrl
<1>2. Head(ctrlQueue) = Stray
  BY <1>1 DEF Ctrls, Stray
<1>3. Has(ctrlQueue, Stray)
  BY <1>1, <1>2, HasTail
<1> QED
  BY <1>3 DEF CtrlOK

-----------------------------------------------------------------------------
(* The threads and the mutex.                                               *)

LEMMA ThreadStep ==
  ASSUME TypeOK, MutexHeld, StopsWhenTold, ThreadOK, CtrlOK, [Next]_vars
  PROVE  MutexHeld' /\ StopsWhenTold' /\ ThreadOK'
<1>1. CASE NextSource
  BY <1>1 DEF TypeOK, MutexHeld, StopsWhenTold, ThreadOK, Iterating, NextSource, router, tlm,
     queues, ctrl, tools
<1>2. CASE SourcesChanged
  BY <1>2 DEF TypeOK, MutexHeld, StopsWhenTold, ThreadOK, Iterating, SourcesChanged, Stop,
     router, tlm, queues, ctrl, tools
<1>3. CASE ReadCmd
  BY <1>3 DEF TypeOK, MutexHeld, StopsWhenTold, ThreadOK, Iterating, ReadCmd, router, tlm,
     queues, ctrl, tools
<1>4. CASE ReadReplaced
  BY <1>4 DEF TypeOK, MutexHeld, StopsWhenTold, ThreadOK, Iterating, ReadReplaced, router,
     tlm, queues, ctrl, tools
<1>5. CASE ReadTimeout
  BY <1>5 DEF TypeOK, MutexHeld, StopsWhenTold, ThreadOK, Iterating, ReadTimeout, router, tlm,
     queues, ctrl, tools
<1>6. CASE SendCmd
  BY <1>6 DEF TypeOK, MutexHeld, StopsWhenTold, ThreadOK, Iterating, SendCmd, router, tlm,
     queues, ctrl, tools
<1>7. CASE SendCmdFails
  BY <1>7 DEF TypeOK, MutexHeld, StopsWhenTold, ThreadOK, Iterating, SendCmdFails, SendFails, Stop,
     router, tlm, queues, ctrl, tools
<1>8. CASE CmdsSent
  BY <1>8 DEF TypeOK, MutexHeld, StopsWhenTold, ThreadOK, Iterating, CmdsSent, router, tlm,
     queues, ctrl, tools
<1>9. CASE RecvTlm
  BY <1>9 DEF TypeOK, MutexHeld, StopsWhenTold, ThreadOK, Iterating, RecvTlm, router, tlm,
     queues, ctrl, tools
<1>10. CASE TlmClosed
  BY <1>10 DEF TypeOK, MutexHeld, StopsWhenTold, ThreadOK, Iterating, TlmClosed, Stop, router,
     tlm, queues, ctrl, tools
<1>11. CASE AcquireMutex
  BY <1>11 DEF TypeOK, MutexHeld, StopsWhenTold, ThreadOK, Iterating, AcquireMutex, router,
     tlm, queues, ctrl, tools
<1>12. CASE SendTlm
  BY <1>12 DEF TypeOK, MutexHeld, StopsWhenTold, ThreadOK, Iterating, SendTlm, router, tlm,
     queues, ctrl, tools
<1>13. CASE SendTlmFails
  BY <1>13 DEF TypeOK, MutexHeld, StopsWhenTold, ThreadOK, Iterating, SendTlmFails, SendFails, Stop,
     router, tlm, queues, ctrl, tools
<1>14. CASE ReleaseMutex
  BY <1>14 DEF TypeOK, MutexHeld, StopsWhenTold, ThreadOK, Iterating, ReleaseMutex, router,
     tlm, queues, ctrl, tools
<1>15. CASE ReadCtrl
  BY <1>15 DEF TypeOK, MutexHeld, StopsWhenTold, ThreadOK, Iterating, ReadCtrl, router, tlm,
     queues, ctrl, tools
<1>16. CASE CtrlTimeout
  BY <1>16 DEF TypeOK, MutexHeld, StopsWhenTold, ThreadOK, Iterating, CtrlTimeout, router,
     tlm, queues, ctrl, tools
<1>17. CASE RemoveDest
  BY <1>17 DEF TypeOK, MutexHeld, StopsWhenTold, ThreadOK, Iterating, RemoveDest, router, tlm,
     queues, ctrl, tools
<1>18. CASE SetCfsIpAddr
  BY <1>18 DEF TypeOK, MutexHeld, StopsWhenTold, ThreadOK, Iterating, SetCfsIpAddr, router,
     tlm, queues, ctrl, tools
<1>19. CASE PassEnds
  BY <1>19 DEF TypeOK, MutexHeld, StopsWhenTold, ThreadOK, Iterating, PassEnds, Stop, router,
     tlm, queues, ctrl, tools
<1>20. CASE TlmTimeout
  BY <1>20 DEF TypeOK, MutexHeld, StopsWhenTold, ThreadOK, Iterating, TlmTimeout, router, tlm,
     queues, ctrl, tools
<1>21. CASE FinishLaunch
  BY <1>21 DEF TypeOK, MutexHeld, StopsWhenTold, ThreadOK, Iterating, FinishLaunch, AddDest,
     router, tlm, queues, ctrl, tools
<1>22. CASE RouteCmd
  BY <1>22 DEF TypeOK, MutexHeld, StopsWhenTold, ThreadOK, Iterating, RouteCmd, router, tlm,
     queues, ctrl, tools
<1>23. CASE GuiCommand
  BY <1>23 DEF TypeOK, MutexHeld, StopsWhenTold, ThreadOK, Iterating, GuiCommand, router, tlm,
     queues, ctrl, tools
<1>24. CASE Shutdown
  BY <1>24 DEF TypeOK, MutexHeld, StopsWhenTold, ThreadOK, Iterating, Shutdown, router, tlm,
     queues, ctrl, tools
<1>25. CASE TlmArrives
  BY <1>25 DEF TypeOK, MutexHeld, StopsWhenTold, ThreadOK, Iterating, TlmArrives, router, tlm,
     queues, ctrl, tools
<1>26. ASSUME NEW t \in Tools, Launch(t) PROVE MutexHeld' /\ StopsWhenTold' /\ ThreadOK'
  BY <1>26 DEF TypeOK, MutexHeld, StopsWhenTold, ThreadOK, Iterating, Launch, AddSource,
     MayLaunch, router, tlm, queues, ctrl, tools
<1>27. ASSUME NEW t \in Tools, BindFails(t) PROVE MutexHeld' /\ StopsWhenTold' /\ ThreadOK'
  BY <1>27 DEF TypeOK, MutexHeld, StopsWhenTold, ThreadOK, Iterating, BindFails, MayLaunch,
     router, tlm, queues, ctrl, tools
<1>28. ASSUME NEW t \in Tools, CloseTool(t) PROVE MutexHeld' /\ StopsWhenTold' /\ ThreadOK'
  BY <1>28 DEF TypeOK, MutexHeld, StopsWhenTold, ThreadOK, Iterating, CloseTool, router, tlm,
     queues, ctrl, tools
<1>29. ASSUME NEW t \in CmdTools, ToolSends(t) PROVE MutexHeld' /\ StopsWhenTold' /\ ThreadOK'
  BY <1>29 DEF TypeOK, MutexHeld, StopsWhenTold, ThreadOK, Iterating, ToolSends, router, tlm,
     queues, ctrl, tools
<1>30. ASSUME NEW t \in CmdTools, SetTarget(t) PROVE MutexHeld' /\ StopsWhenTold' /\ ThreadOK'
  BY <1>30 DEF TypeOK, MutexHeld, StopsWhenTold, ThreadOK, Iterating, SetTarget, router, tlm,
     queues, ctrl, tools
<1>31. ASSUME NEW r \in Remotes, Connect(r) PROVE MutexHeld' /\ StopsWhenTold' /\ ThreadOK'
  BY <1>31 DEF TypeOK, MutexHeld, StopsWhenTold, ThreadOK, Iterating, Connect, AddDest,
     router, tlm, queues, ctrl, tools
<1>35. CASE UNCHANGED vars
  BY <1>35 DEF TypeOK, MutexHeld, StopsWhenTold, ThreadOK, Iterating, vars, router, tlm,
     queues, ctrl, tools
<1>32. CASE OtherCtrl
  <2>1. /\ pc = "ctrlcmds" /\ pc' \in {pc, "stopped"} /\ enabled' \in {enabled, FALSE}
        /\ (pc' = "stopped" => ~enabled') /\ (pc' = pc => enabled' = enabled)
        /\ UNCHANGED <<campaign, size, todo, mutex, connector, dests, taken, gui, sources>>
    BY <1>32 DEF OtherCtrl, Stop, router, tlm, tools
  <2>2. "ctrl" \in campaign.faults
    BY <1>32, OtherFact
  <2>3. MutexHeld'
    BY <2>1 DEF MutexHeld
  <2>4. StopsWhenTold'
    BY <2>1, <2>2 DEF StopsWhenTold, Iterating
  <2>5. ThreadOK'
    BY <2>1 DEF MutexHeld, ThreadOK
  <2> QED
    BY <2>3, <2>4, <2>5
<1>33. CASE ConnectFails
  BY <1>33 DEF TypeOK, MutexHeld, StopsWhenTold, ThreadOK, Iterating, ConnectFails, router, tlm,
     queues, ctrl, tools
<1>34. CASE StrayCtrl
  BY <1>34 DEF TypeOK, MutexHeld, StopsWhenTold, ThreadOK, Iterating, StrayCtrl, router, tlm,
     queues, ctrl, tools
<1> QED
  BY <1>1, <1>2, <1>3, <1>4, <1>5, <1>6, <1>7, <1>8, <1>9, <1>10, <1>11, <1>12, <1>13, <1>14,
     <1>15, <1>16, <1>17, <1>18, <1>19, <1>20, <1>21, <1>22, <1>23, <1>24, <1>25, <1>26, <1>27,
     <1>28, <1>29, <1>30, <1>31, <1>32, <1>33, <1>34, <1>35 DEF Next, Router

-----------------------------------------------------------------------------
(* Telemetry.                                                               *)

\* One more datagram.
LEMMA ExtendFact ==
  ASSUME NEW a \in Nat, NEW b \in Nat, a <= b - 1
  PROVE  Append([i \in 1 .. b - 1 - a |-> a + i], b) = [i \in 1 .. b - a |-> a + i]
<1> DEFINE f == [i \in 1 .. b - 1 - a |-> a + i]  g == [i \in 1 .. b - a |-> a + i]
<1>1. b - 1 - a \in Nat /\ b - a \in Nat /\ b - a = b - 1 - a + 1
  OBVIOUS
<1>2. f \in [1 .. b - 1 - a -> Nat] /\ g \in [1 .. b - a -> Nat]
  OBVIOUS
<1>3. f \in Seq(Nat) /\ g \in Seq(Nat)
  BY <1>1, <1>2, SeqDef
<1>4. Len(f) = b - 1 - a /\ Len(g) = b - a
  BY <1>1, <1>3, LenProperties
<1>5. \A i \in 1 .. b - 1 - a : f[i] = g[i]
  OBVIOUS
<1>6. g[b - a] = b
  OBVIOUS
<1> HIDE DEF f, g
<1>7. Append(f, b) \in Seq(Nat) /\ Len(Append(f, b)) = b - a
  BY <1>1, <1>3, <1>4, AppendProperties
<1>8. ASSUME NEW i \in 1 .. b - a
      PROVE  Append(f, b)[i] = g[i]
  BY <1>1, <1>3, <1>4, <1>5, <1>6, AppendProperties
<1>9. Append(f, b) = g
  BY <1>3, <1>4, <1>7, <1>8, SeqEqual
<1> QED
  BY <1>9 DEF f, g

\* Steps that do not touch the fan-out.
LEMMA ServedQuiet ==
  ASSUME Served, SinceOK, UNCHANGED <<got, since, dests, todo, taken>>,
         pc' = "stopped" \/ (pc # "stopped" /\ (pc' = "lock" <=> pc = "lock"))
  PROVE  Served' /\ SinceOK'
BY DEF Served, SinceOK

\* A destination is added; nothing is being sent.
LEMMA ServedAdd ==
  ASSUME TypeOK, MutexHeld, ThreadOK, Served, SinceOK, NEW d \in Dests, AddDest(d),
         UNCHANGED <<pc, todo, taken>>
  PROVE  Served' /\ SinceOK'
<1>1. todo = {} /\ taken \in Nat /\ (pc = "lock" => taken > 0)
  BY DEF AddDest, MutexHeld, ThreadOK, TypeOK
<1>2. got \in [Dests -> Seq(Nat)] /\ since \in [Dests -> Nat] /\ dests \subseteq Dests
  BY DEF TypeOK
<1>a. dests' \subseteq dests \cup {d}
  BY DEF AddDest
<1>3. CASE d \in dests
  <2>1. dests' \subseteq dests /\ UNCHANGED <<got, since>>
    BY <1>3, <1>a DEF AddDest
  <2> QED
    BY <2>1 DEF Served, SinceOK
<1>4. CASE d \notin dests
  <2> DEFINE last == IF pc = "lock" THEN taken - 1 ELSE taken
  <2>1. got'[d] = <<>> /\ since'[d] = last /\ last \in Nat
    BY <1>1, <1>2, <1>4 DEF AddDest
  <2>2. \A e \in dests : got'[e] = got[e] /\ since'[e] = since[e]
    BY <1>2, <1>4 DEF AddDest
  <2>3. ASSUME NEW e \in dests'
        PROVE  pc # "stopped" => got'[e] = [i \in 1 .. last - since'[e] |-> since'[e] + i] /\ since'[e] <= last
    <3>1. CASE e = d
      <4>1. 1 .. last - last = {}
        BY <2>1
      <4>2. [i \in 1 .. last - last |-> last + i] = <<>>
        BY <4>1
      <4> QED
        BY <2>1, <3>1, <4>2
    <3>2. CASE e \in dests
      BY <1>1, <2>2, <3>2 DEF Served, SinceOK
    <3> QED
      BY <1>a, <3>1, <3>2
  <2> QED
    BY <1>1, <2>3 DEF Served, SinceOK
<1> QED
  BY <1>3, <1>4

LEMMA ServedStep ==
  ASSUME TypeOK, MutexHeld, ThreadOK, Served, SinceOK, [Next]_vars
  PROVE  Served' /\ SinceOK'
<1>1. CASE NextSource
  BY <1>1, ServedQuiet DEF NextSource, router, tlm, queues, ctrl, tools
<1>2. CASE SourcesChanged
  BY <1>2, ServedQuiet DEF SourcesChanged, Stop, router, tlm, queues, ctrl, tools
<1>3. CASE ReadCmd
  BY <1>3, ServedQuiet DEF ReadCmd, router, tlm, queues, ctrl, tools
<1>4. CASE ReadReplaced
  BY <1>4, ServedQuiet DEF ReadReplaced, router, tlm, queues, ctrl, tools
<1>5. CASE ReadTimeout
  BY <1>5, ServedQuiet DEF ReadTimeout, router, tlm, queues, ctrl, tools
<1>6. CASE SendCmd
  BY <1>6, ServedQuiet DEF SendCmd, router, tlm, queues, ctrl, tools
<1>7. CASE SendCmdFails
  BY <1>7, ServedQuiet DEF SendCmdFails, Stop, router, tlm, queues, ctrl, tools
<1>8. CASE CmdsSent
  BY <1>8, ServedQuiet DEF CmdsSent, router, tlm, queues, ctrl, tools
<1>9. CASE RecvTlm
  <2>1. todo = {} /\ pc' = "lock" /\ pc = "tlm" /\ taken' - 1 = taken
    BY <1>9 DEF RecvTlm, TypeOK, MutexHeld
  <2>2. UNCHANGED <<got, since, dests, todo>>
    BY <1>9 DEF RecvTlm
  <2> QED
    BY <2>1, <2>2 DEF Served, SinceOK
<1>10. CASE TlmClosed
  BY <1>10, ServedQuiet DEF TlmClosed, Stop, router, tlm, queues, ctrl, tools
<1>11. CASE AcquireMutex
  <2>1. todo' = dests /\ pc = "lock" /\ pc' = "fanout" /\ UNCHANGED <<got, since, dests, taken>>
    BY <1>11 DEF AcquireMutex
  <2> QED
    BY <2>1 DEF Served, SinceOK
<1>12. CASE SendTlm
  <2> PICK d \in todo : todo' = todo \ {d} /\ got' = [got EXCEPT ![d] = Append(got[d], taken)]
    BY <1>12 DEF SendTlm
  <2>1. pc = "fanout" /\ pc' = "fanout" /\ UNCHANGED <<since, dests, taken>>
    BY <1>12 DEF SendTlm
  <2>2. d \in dests /\ dests \subseteq Dests /\ taken \in Nat /\ got \in [Dests -> Seq(Nat)] /\ since[d] \in Nat
    BY DEF TypeOK, MutexHeld
  <2>3. got[d] = [i \in 1 .. taken - 1 - since[d] |-> since[d] + i] /\ since[d] <= taken - 1
    BY <2>1, <2>2 DEF Served, SinceOK
  <2>4. got'[d] = [i \in 1 .. taken - since[d] |-> since[d] + i]
    <3>1. Append([i \in 1 .. taken - 1 - since[d] |-> since[d] + i], taken)
            = [i \in 1 .. taken - since[d] |-> since[d] + i]
      BY <2>2, <2>3, ExtendFact
    <3>2. got'[d] = Append(got[d], taken)
      BY <2>2
    <3> QED
      BY <2>3, <3>1, <3>2
  <2>5. \A e \in dests : e # d => got'[e] = got[e] /\ (e \in todo' <=> e \in todo)
    BY <2>2
  <2>6. ASSUME NEW e \in dests'
        PROVE  LET last == IF pc' = "lock" \/ e \in todo' THEN taken' - 1 ELSE taken'
               IN  /\ got'[e] = [i \in 1 .. last - since'[e] |-> since'[e] + i]
                   /\ since'[e] <= last
    <3>1. CASE e = d
      BY <2>1, <2>2, <2>3, <2>4, <3>1
    <3>2. CASE e # d
      BY <2>1, <2>5, <3>2 DEF Served, SinceOK
    <3> QED
      BY <3>1, <3>2
  <2>7. SinceOK'
    BY <2>1, <2>6 DEF SinceOK
  <2>8. Served'
    BY <2>1, <2>6 DEF Served
  <2> QED
    BY <2>7, <2>8
<1>13. CASE SendTlmFails
  BY <1>13, ServedQuiet DEF SendTlmFails, Stop, router, tlm, queues, ctrl, tools
<1>14. CASE ReleaseMutex
  <2>1. todo = {} /\ pc = "fanout" /\ pc' = "tlm" /\ UNCHANGED <<got, since, dests, taken, todo>>
    BY <1>14 DEF ReleaseMutex
  <2> QED
    BY <2>1, ServedQuiet
<1>15. CASE ReadCtrl
  BY <1>15, ServedQuiet DEF ReadCtrl, router, tlm, queues, ctrl, tools
<1>16. CASE CtrlTimeout
  BY <1>16, ServedQuiet DEF CtrlTimeout, router, tlm, queues, ctrl, tools
<1>17. CASE RemoveDest
  <2>1. dests' \subseteq dests /\ UNCHANGED <<got, since, todo, taken, pc>>
    BY <1>17 DEF RemoveDest, router
  <2> QED
    BY <2>1 DEF Served, SinceOK
<1>18. CASE SetCfsIpAddr
  BY <1>18, ServedQuiet DEF SetCfsIpAddr, router, tlm, queues, ctrl, tools
<1>19. CASE PassEnds
  BY <1>19, ServedQuiet DEF PassEnds, Stop, router, tlm, queues, ctrl, tools
<1>20. CASE TlmTimeout
  BY <1>20, ServedQuiet DEF TlmTimeout, router, tlm, queues, ctrl, tools
<1>21. CASE FinishLaunch
  <2>1. UNCHANGED <<pc, todo, taken>>
    BY <1>21 DEF FinishLaunch, router
  <2>2. CASE launching \in TlmTools
    BY <1>21, <2>1, <2>2, SetFact, ServedAdd DEF FinishLaunch
  <2>3. CASE launching \notin TlmTools
    BY <1>21, <2>1, <2>3, ServedQuiet DEF FinishLaunch
  <2> QED
    BY <2>2, <2>3
<1>22. CASE RouteCmd
  BY <1>22, ServedQuiet DEF RouteCmd, router, tlm, queues, ctrl, tools
<1>23. CASE GuiCommand
  BY <1>23, ServedQuiet DEF GuiCommand, router, tlm, queues, ctrl, tools
<1>24. CASE Shutdown
  BY <1>24, ServedQuiet DEF Shutdown, router, tlm, queues, ctrl, tools
<1>25. CASE TlmArrives
  BY <1>25, ServedQuiet DEF TlmArrives, router, tlm, queues, ctrl, tools
<1>26. ASSUME NEW t \in Tools, Launch(t) PROVE Served' /\ SinceOK'
  BY <1>26, ServedQuiet DEF Launch, router, tlm, queues, ctrl, tools
<1>27. ASSUME NEW t \in Tools, BindFails(t) PROVE Served' /\ SinceOK'
  BY <1>27, ServedQuiet DEF BindFails, router, tlm, queues, ctrl, tools
<1>28. ASSUME NEW t \in Tools, CloseTool(t) PROVE Served' /\ SinceOK'
  BY <1>28, ServedQuiet DEF CloseTool, router, tlm, queues, ctrl, tools
<1>29. ASSUME NEW t \in CmdTools, ToolSends(t) PROVE Served' /\ SinceOK'
  BY <1>29, ServedQuiet DEF ToolSends, router, tlm, queues, ctrl, tools
<1>30. ASSUME NEW t \in CmdTools, SetTarget(t) PROVE Served' /\ SinceOK'
  BY <1>30, ServedQuiet DEF SetTarget, router, tlm, queues, ctrl, tools
<1>31. ASSUME NEW r \in Remotes, Connect(r) PROVE Served' /\ SinceOK'
  BY <1>31, SetFact, ServedAdd DEF Connect, router
<1>32. CASE OtherCtrl
  BY <1>32, ServedQuiet DEF OtherCtrl, Stop, router, tlm, queues, ctrl, tools
<1>33. CASE ConnectFails
  BY <1>33, ServedQuiet DEF ConnectFails, router, tlm, queues, ctrl, tools
<1>34. CASE StrayCtrl
  BY <1>34, ServedQuiet DEF StrayCtrl, router, tlm, queues, ctrl, tools
<1>35. CASE UNCHANGED vars
  BY <1>35, ServedQuiet DEF vars, router, tlm, queues, ctrl, tools
<1> QED
  BY <1>1, <1>2, <1>3, <1>4, <1>5, <1>6, <1>7, <1>8, <1>9, <1>10, <1>11, <1>12, <1>13, <1>14,
     <1>15, <1>16, <1>17, <1>18, <1>19, <1>20, <1>21, <1>22, <1>23, <1>24, <1>25, <1>26, <1>27,
     <1>28, <1>29, <1>30, <1>31, <1>32, <1>33, <1>34, <1>35 DEF Next, Router

-----------------------------------------------------------------------------
(* Tools that are launched and closed.                                      *)

\* Steps after which no more requests to close a port are under way.
LEMMA LaunchQuiet ==
  ASSUME OpenToolsListed, LaunchOK, UNCHANGED <<campaign, running>>,
         \A p : (\E d \in dests : PortOf[d] = p) => \E d \in dests' : PortOf[d] = p,
         \A t \in TlmTools : Pending(t)' => Pending(t),
         gui' = "adding" => gui = "adding" /\ launching' = launching
  PROVE  OpenToolsListed' /\ LaunchOK'
BY DEF OpenToolsListed, LaunchOK

\* Steps that leave the requests alone.
LEMMA LaunchQuieter ==
  ASSUME OpenToolsListed, LaunchOK, UNCHANGED <<campaign, running, dests, ctrlBox, ctrlQueue>>,
         gui' = "adding" => gui = "adding" /\ launching' = launching
  PROVE  OpenToolsListed' /\ LaunchOK'
<1>1. \A t \in TlmTools : Pending(t)' => Pending(t)
  BY DEF Pending, Closing, Has
<1> QED
  BY <1>1, LaunchQuiet

LEMMA LaunchStep ==
  ASSUME TypeOK, OpenToolsListed, LaunchOK, [Next]_vars
  PROVE  OpenToolsListed' /\ LaunchOK'
<1>1. CASE NextSource
  BY <1>1, LaunchQuieter DEF NextSource, router, tlm, queues, ctrl, tools
<1>2. CASE SourcesChanged
  BY <1>2, LaunchQuieter DEF SourcesChanged, Stop, router, tlm, queues, ctrl, tools
<1>3. CASE ReadCmd
  BY <1>3, LaunchQuieter DEF ReadCmd, router, tlm, queues, ctrl, tools
<1>4. CASE ReadReplaced
  BY <1>4, LaunchQuieter DEF ReadReplaced, router, tlm, queues, ctrl, tools
<1>5. CASE ReadTimeout
  BY <1>5, LaunchQuieter DEF ReadTimeout, router, tlm, queues, ctrl, tools
<1>6. CASE SendCmd
  BY <1>6, LaunchQuieter DEF SendCmd, router, tlm, queues, ctrl, tools
<1>7. CASE SendCmdFails
  BY <1>7, LaunchQuieter DEF SendCmdFails, Stop, router, tlm, queues, ctrl, tools
<1>8. CASE CmdsSent
  BY <1>8, LaunchQuieter DEF CmdsSent, router, tlm, queues, ctrl, tools
<1>9. CASE RecvTlm
  BY <1>9, LaunchQuieter DEF RecvTlm, router, tlm, queues, ctrl, tools
<1>10. CASE TlmClosed
  BY <1>10, LaunchQuieter DEF TlmClosed, Stop, router, tlm, queues, ctrl, tools
<1>11. CASE AcquireMutex
  BY <1>11, LaunchQuieter DEF AcquireMutex, router, tlm, queues, ctrl, tools
<1>12. CASE SendTlm
  BY <1>12, LaunchQuieter DEF SendTlm, router, tlm, queues, ctrl, tools
<1>13. CASE SendTlmFails
  BY <1>13, LaunchQuieter DEF SendTlmFails, Stop, router, tlm, queues, ctrl, tools
<1>14. CASE ReleaseMutex
  BY <1>14, LaunchQuieter DEF ReleaseMutex, router, tlm, queues, ctrl, tools
<1>15. CASE ReadCtrl
  <2>1. ctrlBox \in Seq(Ctrls) /\ ctrlQueue \in Seq(Ctrls) /\ ctrlBox # <<>> /\ Head(ctrlBox) \in Ctrls
    BY <1>15, TailFact DEF TypeOK, ReadCtrl
  <2>2. ctrlBox' = Tail(ctrlBox) /\ ctrlQueue' = Append(ctrlQueue, Head(ctrlBox))
    BY <1>15 DEF ReadCtrl
  <2>3. ASSUME NEW x
        PROVE  Has(ctrlBox', x) \/ Has(ctrlQueue', x) => Has(ctrlBox, x) \/ Has(ctrlQueue, x)
    <3>1. Has(ctrlBox, x) <=> Has(ctrlBox', x) \/ x = Head(ctrlBox)
      BY <2>1, <2>2, HasTail
    <3>2. Has(ctrlQueue', x) <=> Has(ctrlQueue, x) \/ x = Head(ctrlBox)
      BY <2>1, <2>2, HasAppend
    <3> QED
      BY <3>1, <3>2
  <2>4. \A t \in TlmTools : Pending(t)' => Pending(t)
    BY <2>3 DEF Pending, Closing, Has
  <2> QED
    BY <1>15, <2>4, LaunchQuiet DEF ReadCtrl, tools, tlm
<1>16. CASE CtrlTimeout
  BY <1>16, LaunchQuieter DEF CtrlTimeout, router, tlm, queues, ctrl, tools
<1>17. CASE RemoveDest
  <2>1. ctrlQueue \in Seq(Ctrls) /\ ctrlQueue # <<>> /\ ctrlQueue' = Tail(ctrlQueue) /\ ctrlBox' = ctrlBox
    BY <1>17 DEF TypeOK, RemoveDest
  <2>2. \A x : Has(ctrlQueue', x) => Has(ctrlQueue, x)
    BY <2>1, HasTail
  <2>3. \A t \in TlmTools : Pending(t)' => Pending(t)
    BY <2>1, <2>2 DEF Pending, Closing, Has
  <2>4. PICK t \in TlmTools : Head(ctrlQueue) = Closing(t) /\ dests' = {d \in dests : PortOf[d] # PortOf[t]}
    <3>1. Head(ctrlQueue) \in Ctrls /\ Head(ctrlQueue).cmd = "ClosePort"
      BY <1>17, <2>1, TailFact DEF RemoveDest
    <3>2. PICK t \in TlmTools : Head(ctrlQueue) = Closing(t)
      BY <3>1 DEF Closing, Ctrls
    <3>3. Head(ctrlQueue).arg = t
      BY <3>2 DEF Closing
    <3> QED
      BY <1>17, <3>2, <3>3 DEF RemoveDest
  <2>5. Pending(t)
    BY <2>1, <2>4, HasTail DEF Pending
  <2>6. UNCHANGED <<campaign, running, gui, launching>>
    BY <1>17 DEF RemoveDest, tools
  <2>7. LaunchOK'
    BY <2>3, <2>6 DEF LaunchOK
  <2>8. ASSUME campaign.patient, NEW u \in TlmTools, running[u] > 0
        PROVE  \E d \in dests' : PortOf[d] = PortOf[u]
    <3>1. running[t] = 0
      BY <2>5, <2>8 DEF LaunchOK
    <3>2. PortOf[u] # PortOf[t]
      BY <2>8, <3>1, ToolAssumption
    <3>3. PICK d \in dests : PortOf[d] = PortOf[u]
      BY <2>8 DEF OpenToolsListed
    <3> QED
      BY <2>4, <3>2, <3>3
  <2> QED
    BY <2>6, <2>7, <2>8 DEF OpenToolsListed
<1>18. CASE SetCfsIpAddr
  <2>1. ctrlQueue \in Seq(Ctrls) /\ ctrlQueue # <<>> /\ ctrlQueue' = Tail(ctrlQueue) /\ ctrlBox' = ctrlBox
    BY <1>18 DEF TypeOK, SetCfsIpAddr
  <2>2. \A x : Has(ctrlQueue', x) => Has(ctrlQueue, x)
    BY <2>1, HasTail
  <2>3. \A t \in TlmTools : Pending(t)' => Pending(t)
    BY <2>1, <2>2 DEF Pending, Closing, Has
  <2> QED
    BY <1>18, <2>3, LaunchQuiet DEF SetCfsIpAddr, tools, tlm
<1>19. CASE PassEnds
  BY <1>19, LaunchQuieter DEF PassEnds, Stop, router, tlm, queues, ctrl, tools
<1>20. CASE TlmTimeout
  BY <1>20, LaunchQuieter DEF TlmTimeout, router, tlm, queues, ctrl, tools
<1>21. CASE FinishLaunch
  <2>1. /\ UNCHANGED <<campaign, ctrlBox, ctrlQueue>> /\ gui = "adding" /\ gui' = "loop"
        /\ running \in [Tools -> Nat] /\ running' = [running EXCEPT ![launching] = running[launching] + 1]
        /\ launching \in Tools
    BY <1>21 DEF FinishLaunch, TypeOK, ctrl
  <2>2. /\ \A p : (\E d \in dests : PortOf[d] = p) => \E d \in dests' : PortOf[d] = p
        /\ launching \in TlmTools => launching \in dests'
    BY <1>21 DEF FinishLaunch, AddDest
  <2>3. \A t \in TlmTools : Pending(t)' => Pending(t)
    BY <2>1 DEF Pending, Closing, Has
  <2>4. running'[launching] = running[launching] + 1 /\ \A t \in Tools : t # launching => running'[t] = running[t]
    BY <2>1
  <2>5. OpenToolsListed'
    BY <2>1, <2>2, <2>4, SetFact DEF OpenToolsListed
  <2>6. LaunchOK'
    BY <2>1, <2>3, <2>4, SetFact DEF LaunchOK
  <2> QED
    BY <2>5, <2>6
<1>22. CASE RouteCmd
  BY <1>22, LaunchQuieter DEF RouteCmd, router, tlm, queues, ctrl, tools
<1>23. CASE GuiCommand
  BY <1>23, LaunchQuieter DEF GuiCommand, router, tlm, queues, ctrl, tools
<1>24. CASE Shutdown
  BY <1>24, LaunchQuieter DEF Shutdown, router, tlm, queues, ctrl, tools
<1>25. CASE TlmArrives
  BY <1>25, LaunchQuieter DEF TlmArrives, router, tlm, queues, ctrl, tools
<1>26. ASSUME NEW t \in Tools, Launch(t) PROVE OpenToolsListed' /\ LaunchOK'
  <2>1. /\ UNCHANGED <<campaign, running, dests, ctrlBox, ctrlQueue>> /\ gui' = "adding" /\ launching' = t
        /\ campaign.patient => running[t] = 0 /\ ~Pending(t)
    BY <1>26 DEF Launch, MayLaunch, ctrl, tlm
  <2>2. \A u \in TlmTools : Pending(u)' => Pending(u)
    BY <2>1 DEF Pending, Closing, Has
  <2> QED
    BY <2>1, <2>2 DEF OpenToolsListed, LaunchOK
<1>27. ASSUME NEW t \in Tools, BindFails(t) PROVE OpenToolsListed' /\ LaunchOK'
  BY <1>27, LaunchQuieter DEF BindFails, router, tlm, queues, ctrl, tools
<1>28. ASSUME NEW t \in Tools, CloseTool(t) PROVE OpenToolsListed' /\ LaunchOK'
  <2>1. /\ UNCHANGED <<campaign, dests, ctrlQueue, gui, launching>> /\ running[t] > 0
        /\ running \in [Tools -> Nat] /\ running' = [running EXCEPT ![t] = running[t] - 1]
        /\ ctrlBox' = IF t \in TlmTools THEN Append(ctrlBox, Closing(t)) ELSE ctrlBox
        /\ ctrlBox \in Seq(Ctrls)
    BY <1>28 DEF CloseTool, Closing, TypeOK, tlm
  <2>2. ASSUME NEW u \in TlmTools, Pending(u)' PROVE Pending(u) \/ u = t
    <3>1. CASE t \in TlmTools
      <4>1. Closing(t) \in Ctrls
        BY <3>1 DEF Closing, Ctrls
      <4>2. Has(ctrlBox', Closing(u)) => Has(ctrlBox, Closing(u)) \/ Closing(u) = Closing(t)
        BY <2>1, <3>1, <4>1, HasAppend
      <4>3. Closing(u) = Closing(t) => u = t
        BY DEF Closing
      <4> QED
        BY <2>1, <2>2, <4>2, <4>3 DEF Pending, Closing, Has
    <3>2. CASE t \notin TlmTools
      BY <2>1, <2>2, <3>2 DEF Pending, Closing, Has
    <3> QED
      BY <3>1, <3>2
  <2>3. running'[t] = running[t] - 1 /\ \A u \in Tools : u # t => running'[u] = running[u]
    BY <2>1
  <2>4. \A u \in Tools : running[u] \in Nat /\ running'[u] \in Nat /\ running'[u] <= running[u]
    BY <2>1, <2>3
  <2>5. OpenToolsListed'
    BY <2>1, <2>4, SetFact DEF OpenToolsListed
  <2>6. ASSUME campaign.patient
        PROVE  running[t] = 1 /\ running'[t] = 0 /\ (gui = "adding" => launching # t)
    BY <2>1, <2>3, <2>4, <2>6 DEF LaunchOK
  <2>7. LaunchOK'
    BY <2>1, <2>2, <2>3, <2>4, <2>6, SetFact DEF LaunchOK, TypeOK
  <2> QED
    BY <2>5, <2>7
<1>29. ASSUME NEW t \in CmdTools, ToolSends(t) PROVE OpenToolsListed' /\ LaunchOK'
  BY <1>29, LaunchQuieter DEF ToolSends, router, tlm, queues, ctrl, tools
<1>30. ASSUME NEW t \in CmdTools, SetTarget(t) PROVE OpenToolsListed' /\ LaunchOK'
  <2>1. /\ UNCHANGED <<campaign, running, dests, ctrlQueue, gui, launching>>
        /\ ctrlBox' = <<[cmd |-> "SetCfsIpAddr", arg |-> "remote"]>>
    BY <1>30 DEF SetTarget, tools, tlm
  <2>2. ASSUME NEW u \in TlmTools, Pending(u)' PROVE Pending(u)
    <3>1. ~Has(ctrlBox', Closing(u))
      BY <2>1 DEF Has, Closing
    <3> QED
      BY <2>1, <2>2, <3>1 DEF Pending, Closing, Has
  <2> QED
    BY <2>1, <2>2, LaunchQuiet
<1>31. ASSUME NEW r \in Remotes, Connect(r) PROVE OpenToolsListed' /\ LaunchOK'
  <2>1. \A t \in TlmTools : Pending(t)' => Pending(t)
    BY <1>31 DEF Connect, ctrl, Pending, Closing, Has
  <2> QED
    BY <1>31, <2>1, LaunchQuiet DEF Connect, AddDest, tools
<1>32. CASE OtherCtrl
  <2>1. ctrlQueue \in Seq(Ctrls) /\ ctrlQueue # <<>> /\ ctrlQueue' = Tail(ctrlQueue) /\ ctrlBox' = ctrlBox
    BY <1>32 DEF TypeOK, OtherCtrl
  <2>2. \A x : Has(ctrlQueue', x) => Has(ctrlQueue, x)
    BY <2>1, HasTail
  <2>3. \A t \in TlmTools : Pending(t)' => Pending(t)
    BY <2>1, <2>2 DEF Pending, Closing, Has
  <2> QED
    BY <1>32, <2>3, LaunchQuiet DEF OtherCtrl, tools, tlm
<1>33. CASE ConnectFails
  BY <1>33, LaunchQuieter DEF ConnectFails, router, tlm, queues, ctrl, tools
<1>34. CASE StrayCtrl
  <2>1. /\ UNCHANGED <<campaign, running, dests, ctrlQueue, gui, launching>>
        /\ ctrlBox' = Append(ctrlBox, Stray) /\ ctrlBox \in Seq(Ctrls) /\ Stray \in Ctrls
    BY <1>34 DEF StrayCtrl, Stray, TypeOK, Ctrls, tools, tlm
  <2>2. ASSUME NEW u \in TlmTools, Pending(u)' PROVE Pending(u)
    <3>1. Closing(u) # Stray
      BY DEF Closing, Stray
    <3>2. Has(ctrlBox', Closing(u)) => Has(ctrlBox, Closing(u))
      BY <2>1, <3>1, HasAppend
    <3> QED
      BY <2>1, <2>2, <3>2 DEF Pending, Closing, Has
  <2> QED
    BY <2>1, <2>2, LaunchQuiet
<1>35. CASE UNCHANGED vars
  BY <1>35, LaunchQuieter DEF vars, router, tlm, queues, ctrl, tools
<1> QED
  BY <1>1, <1>2, <1>3, <1>4, <1>5, <1>6, <1>7, <1>8, <1>9, <1>10, <1>11, <1>12, <1>13, <1>14,
     <1>15, <1>16, <1>17, <1>18, <1>19, <1>20, <1>21, <1>22, <1>23, <1>24, <1>25, <1>26, <1>27,
     <1>28, <1>29, <1>30, <1>31, <1>32, <1>33, <1>34, <1>35 DEF Next, Router

-----------------------------------------------------------------------------
(* Commands.                                                                *)

\* The two conjuncts of CommandsInOrder.
LostAtEnd == lost # <<>> => pc = "stopped"
Orderly == \A s \in Senders : InOrder(Way(s), s) /\ NoneLost(s)

\* A command is only lost when the router's thread ends.
LEMMA LostStep ==
  ASSUME LostAtEnd, [Next]_vars
  PROVE  LostAtEnd'
<1> USE DEF LostAtEnd
<1>1. CASE SendCmdFails
  BY <1>1 DEF SendCmdFails, Stop
<1>2. CASE NextSource \/ SourcesChanged \/ ReadCmd \/ ReadReplaced \/ ReadTimeout \/ SendCmd
  BY <1>2 DEF NextSource, SourcesChanged, ReadCmd, ReadReplaced, ReadTimeout, SendCmd, queues, router
<1>3. CASE CmdsSent \/ RecvTlm \/ TlmClosed \/ AcquireMutex \/ SendTlm \/ SendTlmFails
  BY <1>3 DEF CmdsSent, RecvTlm, TlmClosed, AcquireMutex, SendTlm, SendTlmFails, queues
<1>4. CASE ReleaseMutex \/ ReadCtrl \/ CtrlTimeout \/ RemoveDest \/ SetCfsIpAddr \/ OtherCtrl
  BY <1>4 DEF ReleaseMutex, ReadCtrl, CtrlTimeout, RemoveDest, SetCfsIpAddr, OtherCtrl, queues
<1>5. CASE PassEnds \/ TlmTimeout
  BY <1>5 DEF PassEnds, TlmTimeout, queues
<1>6. CASE FinishLaunch \/ RouteCmd \/ GuiCommand \/ Shutdown \/ TlmArrives
  BY <1>6 DEF FinishLaunch, RouteCmd, GuiCommand, Shutdown, TlmArrives, queues, router
<1>7. CASE ConnectFails \/ StrayCtrl
  BY <1>7 DEF ConnectFails, StrayCtrl, queues, router
<1>8. ASSUME NEW t \in Tools, Launch(t) \/ BindFails(t) \/ CloseTool(t)
      PROVE  LostAtEnd'
  BY <1>8 DEF Launch, BindFails, CloseTool, queues, router
<1>9. ASSUME NEW t \in CmdTools, ToolSends(t) \/ SetTarget(t)
      PROVE  LostAtEnd'
  BY <1>9 DEF ToolSends, SetTarget, queues, router
<1>10. ASSUME NEW r \in Remotes, Connect(r)
       PROVE  LostAtEnd'
  BY <1>10 DEF Connect, queues, router
<1>11. CASE UNCHANGED vars
  BY <1>11 DEF vars, queues, router
<1> QED
  BY <1>1, <1>2, <1>3, <1>4, <1>5, <1>6, <1>7, <1>8, <1>9, <1>10, <1>11 DEF Next, Router

\* What was handed to sendto, before and after a sendto that succeeds or fails.
LEMMA HandedFact ==
  ASSUME NEW p \in Seq(Cmds), NEW c \in Cmds
  PROVE  p \o <<>> = p /\ p \o <<c>> = Append(p, c)
<1>1. <<c>> \in Seq(Cmds) /\ Len(<<c>>) = 1 /\ <<c>>[1] = c
  OBVIOUS
<1>2. p \o <<>> = p
  BY ConcatEmptySeq
<1>3. /\ p \o <<c>> \in Seq(Cmds) /\ Len(p \o <<c>>) = Len(p) + 1 /\ Len(p) \in Nat
      /\ \A i \in 1 .. Len(p) + 1 : (p \o <<c>>)[i] = IF i <= Len(p) THEN p[i] ELSE <<c>>[i - Len(p)]
  BY <1>1, ConcatProperties, LenProperties
<1>4. /\ Append(p, c) \in Seq(Cmds) /\ Len(Append(p, c)) = Len(p) + 1
      /\ \A i \in 1 .. Len(p) + 1 : Append(p, c)[i] = (p \o <<c>>)[i]
  BY <1>1, <1>3, AppendProperties
<1> QED
  BY <1>2, <1>3, <1>4, SeqEqual

LEMMA HandedType == TypeOK => Handed \in Seq(Cmds)
BY ConcatProperties DEF TypeOK, Handed

LEMMA WayFact ==
  ASSUME TypeOK, NEW s \in Senders
  PROVE  /\ Way(s) \in Rows
         /\ Way(s)[1] = Handed /\ Way(s)[2] = cmdQueue /\ Way(s)[3] = sourceQueue
         /\ Way(s)[4] = IF replaced /\ sources[at] = s THEN orphan ELSE <<>>
         /\ Way(s)[5] = IF s = Gui THEN <<>> ELSE inbox[s]
<1>0. Handed \in Seq(Cmds)
  BY HandedType
<1>1. /\ cmdQueue \in Seq(Cmds) /\ sourceQueue \in Seq(Cmds)
      /\ (IF replaced /\ sources[at] = s THEN orphan ELSE <<>>) \in Seq(Cmds)
      /\ (IF s = Gui THEN <<>> ELSE inbox[s]) \in Seq(Cmds)
  BY EmptySeq DEF TypeOK, Senders
<1> DEFINE a == IF replaced /\ sources[at] = s THEN orphan ELSE <<>>
           b == IF s = Gui THEN <<>> ELSE inbox[s]
<1>2. Way(s) = <<Handed, cmdQueue, sourceQueue, a, b>>
  BY DEF Way
<1>3. a \in Seq(Cmds) /\ b \in Seq(Cmds)
  BY <1>1
<1> HIDE DEF a, b
<1>4. <<Handed, cmdQueue, sourceQueue, a, b>> \in [1 .. 5 -> Seq(Cmds)]
  BY <1>0, <1>1, <1>3
<1>5. Way(s)[4] = a /\ Way(s)[5] = b /\ Way(s)[1] = Handed /\ Way(s)[2] = cmdQueue /\ Way(s)[3] = sourceQueue
  BY <1>2
<1> QED
  BY <1>2, <1>4, <1>5 DEF Rows, a, b

\* The commands in a queue, and in the queue one is put into or taken from.
LEMMA GivenFact ==
  ASSUME NEW q \in Seq(Cmds), Given(q)
  PROVE  /\ \A c \in Cmds : c.n <= count[c.src] => Given(Append(q, c))
         /\ q # <<>> => Given(Tail(q)) /\ Head(q) \in Cmds /\ Head(q).n <= count[Head(q).src]
<1>1. ASSUME NEW c \in Cmds, c.n <= count[c.src] PROVE Given(Append(q, c))
  <2>1. \A i \in DOMAIN Append(q, c) :
          (i \in DOMAIN q /\ Append(q, c)[i] = q[i]) \/ Append(q, c)[i] = c
    BY AppendCmd
  <2> QED
    BY <1>1, <2>1 DEF Given
<1>2. CASE q # <<>>
  BY <1>2, TailCmd DEF Given
<1> QED
  BY <1>1, <1>2

LEMMA OnlyFact ==
  ASSUME NEW q \in Seq(Cmds), NEW t, Only(q, t)
  PROVE  /\ \A c \in Cmds : c.src = t => Only(Append(q, c), t)
         /\ q # <<>> => Only(Tail(q), t) /\ Head(q).src = t
<1>1. ASSUME NEW c \in Cmds, c.src = t PROVE Only(Append(q, c), t)
  <2>1. \A i \in DOMAIN Append(q, c) :
          (i \in DOMAIN q /\ Append(q, c)[i] = q[i]) \/ Append(q, c)[i] = c
    BY AppendCmd
  <2> QED
    BY <1>1, <2>1 DEF Only
<1>2. CASE q # <<>>
  BY <1>2, TailCmd DEF Only
<1> QED
  BY <1>1, <1>2

LEMMA NothingFact == \A t : Given(<<>>) /\ Only(<<>>, t)
<1>1. DOMAIN <<>> = {}
  BY EmptySeq
<1> QED
  BY <1>1 DEF Given, Only

\* Every command that was on the way still is.
LEMMA NotLost ==
  ASSUME Orderly, NEW s \in Senders,
         UNCHANGED <<count, first>>,
         \A x : Somewhere(Way(s), x) => Somewhere(Way(s)', x)
  PROVE  NoneLost(s)'
BY DEF Orderly, NoneLost

\* Steps that leave the queues alone.
LEMMA QueueQuiet ==
  ASSUME QueuesOK, Orderly,
         UNCHANGED <<inbox, sourceQueue, cmdQueue, sent, lost, orphan, count, first>>,
         \/ ~replaced /\ ~replaced'
         \/ replaced' = replaced /\ sources'[at'] = sources[at]
         \/ replaced /\ ~replaced' /\ orphan = <<>>
  PROVE  QueuesOK' /\ Orderly'
<1>0. Handed' = Handed
  BY DEF Handed
<1>1. \A s \in Senders : Way(s)' = Way(s)
  BY <1>0 DEF Way
<1>2. QueuesOK'
  BY <1>0 DEF QueuesOK, Given, Only
<1>3. Orderly'
  BY <1>1, NotLost DEF Orderly
<1> QED
  BY <1>2, <1>3

\* A tool is launched (again): its socket is replaced.
LEMMA AddSourceStep ==
  ASSUME TypeOK, QueuesOK, Orderly, NEW t \in CmdTools, AddSource(t),
         UNCHANGED <<sourceQueue, cmdQueue, sent, lost, count, at>>
  PROVE  QueuesOK' /\ Orderly'
<1>0. Handed' = Handed
  BY DEF Handed
<1> DEFINE reading == pc = "read" /\ ~replaced /\ sources[at] = t
<1>1. /\ t # Gui /\ t \in Senders /\ inbox \in [CmdTools -> Seq(Cmds)] /\ first \in [Senders -> Nat]
      /\ count \in [Senders -> Nat]
  BY SetFact DEF TypeOK
<1>2. /\ inbox'[t] = <<>> /\ \A u \in CmdTools : u # t => inbox'[u] = inbox[u]
      /\ replaced' = (replaced \/ reading) /\ orphan' = IF reading THEN inbox[t] ELSE orphan
      /\ first'[t] = count[t] /\ \A s \in Senders : s # t => first'[s] = first[s]
  BY <1>1 DEF AddSource
<1>3. replaced \/ reading => sources'[at] = sources[at]
  BY SourceFact, AddSourceType DEF TypeOK
<1> HIDE DEF reading
<1>4. reading => ~replaced /\ sources[at] = t
  BY DEF reading
<1>5. QueuesOK'
  <2>1. \A u \in CmdTools : Given(inbox'[u]) /\ Only(inbox'[u], u)
    BY <1>2, NothingFact DEF QueuesOK
  <2>2. replaced' => Given(orphan') /\ Only(orphan', sources'[at])
    BY <1>2, <1>3, <1>4 DEF QueuesOK
  <2> QED
    BY <1>0, <2>1, <2>2 DEF QueuesOK, Given, Only
<1>6. ASSUME NEW s \in Senders, s # t
      PROVE  InOrder(Way(s)', s) /\ NoneLost(s)'
  <2>1. Way(s)' = Way(s)
    <3>1. (IF replaced' /\ sources'[at'] = s THEN orphan' ELSE <<>>)
            = (IF replaced /\ sources[at] = s THEN orphan ELSE <<>>)
      BY <1>2, <1>3, <1>4, <1>6
    <3>2. (IF s = Gui THEN <<>> ELSE inbox'[s]) = (IF s = Gui THEN <<>> ELSE inbox[s])
      BY <1>2, <1>6 DEF Senders
    <3> QED
      BY <1>0, <3>1, <3>2 DEF Way
  <2> QED
    BY <1>2, <1>6, <2>1 DEF Orderly, NoneLost
<1>7. InOrder(Way(t)', t)
  <2>1. InOrder(Way(t), t) /\ Way(t) \in Rows
    BY <1>1, WayFact DEF Orderly
  <2>2. Way(t)'[5] = <<>> /\ \A m \in 1 .. 3 : Way(t)'[m] = Way(t)[m]
    BY <1>0, <1>1, <1>2 DEF Way
  <2>3. CASE reading
    <3>1. Way(t)'[4] = Way(t)[5]
      BY <1>1, <1>2, <1>3, <1>4, <2>3 DEF Way
    <3> QED
      BY <2>1, <2>2, <3>1, Replaced
  <2>4. CASE ~reading
    <3>1. Way(t)'[4] = Way(t)[4]
      BY <1>2, <1>3, <2>4 DEF Way
    <3>2. \A m \in 1 .. 5 \ {5} : Way(t)'[m] = Way(t)[m]
      BY <2>2, <3>1
    <3> QED
      BY <2>1, <2>2, <3>2, Dropped
  <2> QED
    BY <2>3, <2>4
<1>8. NoneLost(t)'
  BY <1>1, <1>2 DEF NoneLost
<1> QED
  BY <1>5, <1>6, <1>7, <1>8 DEF Orderly

LEMMA QueueStep ==
  ASSUME TypeOK, LostAtEnd, QueuesOK, Orderly, [Next]_vars
  PROVE  QueuesOK' /\ Orderly'
<1>1. CASE NextSource
  BY <1>1, QueueQuiet DEF NextSource, router, tlm, queues, ctrl, tools
<1>2. CASE SourcesChanged
  BY <1>2, QueueQuiet DEF SourcesChanged, Stop, router, tlm, queues, ctrl, tools
<1>3. CASE ReadCmd
  <2> DEFINE t == sources[at]  c == Head(inbox[t])
  <2>1. t \in CmdTools /\ inbox[t] \in Seq(Cmds) /\ sourceQueue \in Seq(Cmds) /\ inbox \in [CmdTools -> Seq(Cmds)]
    BY <1>3, SourceFact DEF ReadCmd, TypeOK
  <2>2. /\ inbox[t] # <<>> /\ ~replaced /\ sourceQueue' = Append(sourceQueue, c)
        /\ inbox' = [inbox EXCEPT ![t] = Tail(inbox[t])]
        /\ UNCHANGED <<cmdQueue, Handed, orphan, replaced, at, sources, count, first>>
    BY <1>3 DEF ReadCmd, router, tools, Handed
  <2> HIDE DEF t, c
  <2>3. c \in Cmds /\ c.src = t /\ t # Gui /\ t \in Senders
    BY <2>1, <2>2, TailCmd, OnlyFact, SetFact DEF QueuesOK, c
  <2>4. Given(sourceQueue') /\ \A i \in DOMAIN sourceQueue' : sourceQueue'[i].src # Gui
    <3>1. Given(sourceQueue')
      BY <2>1, <2>2, GivenFact DEF QueuesOK, c
    <3>2. \A i \in DOMAIN sourceQueue' :
            (i \in DOMAIN sourceQueue /\ sourceQueue'[i] = sourceQueue[i]) \/ sourceQueue'[i] = c
      BY <2>1, <2>2, <2>3, AppendCmd
    <3> QED
      BY <2>3, <3>1, <3>2 DEF QueuesOK
  <2>5. \A u \in CmdTools : Given(inbox'[u]) /\ Only(inbox'[u], u)
    <3>1. Given(Tail(inbox[t])) /\ Only(Tail(inbox[t]), t)
      BY <2>1, <2>2, GivenFact, OnlyFact DEF QueuesOK
    <3> QED
      BY <2>1, <2>2, <3>1 DEF QueuesOK
  <2>6. QueuesOK'
    BY <2>2, <2>4, <2>5 DEF QueuesOK, Given, Only
  <2>7. ASSUME NEW s \in Senders
        PROVE  InOrder(Way(s)', s) /\ \A x : Somewhere(Way(s), x) => Somewhere(Way(s)', x)
    <3>1. InOrder(Way(s), s) /\ Way(s) \in Rows
      BY WayFact DEF Orderly
    <3>2. CASE s = t
      <4>1. /\ Way(s)[5] = inbox[t] /\ Way(s)[4] = <<>>
            /\ Way(s)'[3] = Append(Way(s)[3], c) /\ Way(s)'[5] = Tail(inbox[t])
            /\ \A m \in 1 .. 5 \ {3, 5} : Way(s)'[m] = Way(s)[m]
        BY <2>1, <2>2, <2>3, <3>2 DEF Way
      <4>2. /\ Way(s)'[3] = Append(Way(s)[3], Head(Way(s)[5])) /\ Way(s)'[5] = Tail(Way(s)[5])
            /\ Way(s)[5] # <<>> /\ \A m \in 1 .. 5 : 3 < m /\ m < 5 => Way(s)[m] = <<>>
        BY <2>2, <4>1 DEF c
      <4>3. Moves(Way(s), Way(s)', 3, 5)
        BY <4>1, <4>2 DEF Moves
      <4>4. InOrder(Way(s), s)
        BY <3>1
      <4>6. Way(s) \in Rows
        BY <3>1
      <4> DEFINE W == Way(s)  V == Way(s)'  k == 3  l == 5
      <4>7. W \in Rows /\ InOrder(W, s) /\ Moves(W, V, k, l) /\ k \in 1 .. 5 /\ l \in 1 .. 5 /\ k < l
        BY <4>3, <4>4, <4>6
      <4> HIDE DEF W, V, k, l
      <4>8. InOrder(V, s) /\ \A x : Somewhere(W, x) => Somewhere(V, x)
        BY ONLY <4>7, Moved
      <4> QED
        BY <4>8 DEF W, V
    <3>3. CASE s # t
      <4>1. Way(s)'[3] = Append(Way(s)[3], c) /\ \A m \in 1 .. 5 \ {3} : Way(s)'[m] = Way(s)[m]
        BY <2>1, <2>2, <2>3, <3>3 DEF Way, Senders
      <4>2. Puts(Way(s), Way(s)', 3, c)
        BY <4>1 DEF Puts
      <4> QED
        BY <2>3, <3>1, <3>3, <4>2, Foreign
    <3> QED
      BY <3>2, <3>3
  <2> QED
    BY <2>2, <2>6, <2>7, NotLost DEF Orderly
<1>4. CASE ReadReplaced
  <2> DEFINE t == sources[at]  c == Head(orphan)
  <2>1. t \in CmdTools /\ orphan \in Seq(Cmds) /\ sourceQueue \in Seq(Cmds)
    BY <1>4, SourceFact DEF ReadReplaced, TypeOK
  <2>2. /\ orphan # <<>> /\ replaced /\ sourceQueue' = Append(sourceQueue, c) /\ orphan' = Tail(orphan)
        /\ UNCHANGED <<inbox, cmdQueue, Handed, replaced, at, sources, count, first>>
    BY <1>4 DEF ReadReplaced, tools, Handed
  <2> HIDE DEF t, c
  <2>3. c \in Cmds /\ c.src = t /\ t # Gui /\ t \in Senders
    BY <2>1, <2>2, TailCmd, OnlyFact, SetFact DEF QueuesOK, c, t
  <2>4. Given(sourceQueue') /\ \A i \in DOMAIN sourceQueue' : sourceQueue'[i].src # Gui
    <3>1. Given(sourceQueue')
      BY <2>1, <2>2, GivenFact DEF QueuesOK, c
    <3>2. \A i \in DOMAIN sourceQueue' :
            (i \in DOMAIN sourceQueue /\ sourceQueue'[i] = sourceQueue[i]) \/ sourceQueue'[i] = c
      BY <2>1, <2>2, <2>3, AppendCmd
    <3> QED
      BY <2>3, <3>1, <3>2 DEF QueuesOK
  <2>5. Given(orphan') /\ Only(orphan', t)
    BY <2>1, <2>2, GivenFact, OnlyFact DEF QueuesOK, t
  <2>6. QueuesOK'
    BY <2>2, <2>4, <2>5 DEF QueuesOK, Given, Only, t
  <2>7. ASSUME NEW s \in Senders
        PROVE  InOrder(Way(s)', s) /\ \A x : Somewhere(Way(s), x) => Somewhere(Way(s)', x)
    <3>1. InOrder(Way(s), s) /\ Way(s) \in Rows
      BY WayFact DEF Orderly
    <3>2. CASE s = t
      <4>1. /\ Way(s)[4] = orphan
            /\ Way(s)'[3] = Append(Way(s)[3], c) /\ Way(s)'[4] = Tail(orphan)
            /\ \A m \in 1 .. 5 \ {3, 4} : Way(s)'[m] = Way(s)[m]
        BY <2>1, <2>2, <2>3, <3>2 DEF Way, t
      <4>2. /\ Way(s)'[3] = Append(Way(s)[3], Head(Way(s)[4])) /\ Way(s)'[4] = Tail(Way(s)[4])
            /\ Way(s)[4] # <<>> /\ \A m \in 1 .. 5 : 3 < m /\ m < 4 => Way(s)[m] = <<>>
        BY <2>2, <4>1 DEF c
      <4>3. Moves(Way(s), Way(s)', 3, 4)
        BY <4>1, <4>2 DEF Moves
      <4>4. InOrder(Way(s), s)
        BY <3>1
      <4>6. Way(s) \in Rows
        BY <3>1
      <4> DEFINE W == Way(s)  V == Way(s)'  k == 3  l == 4
      <4>7. W \in Rows /\ InOrder(W, s) /\ Moves(W, V, k, l) /\ k \in 1 .. 5 /\ l \in 1 .. 5 /\ k < l
        BY <4>3, <4>4, <4>6
      <4> HIDE DEF W, V, k, l
      <4>8. InOrder(V, s) /\ \A x : Somewhere(W, x) => Somewhere(V, x)
        BY ONLY <4>7, Moved
      <4> QED
        BY <4>8 DEF W, V
    <3>3. CASE s # t
      <4>1. Way(s)'[3] = Append(Way(s)[3], c) /\ \A m \in 1 .. 5 \ {3} : Way(s)'[m] = Way(s)[m]
        BY <2>1, <2>2, <2>3, <3>3 DEF Way, Senders, t
      <4>2. Puts(Way(s), Way(s)', 3, c)
        BY <4>1 DEF Puts
      <4> QED
        BY <2>3, <3>1, <3>3, <4>2, Foreign
    <3> QED
      BY <3>2, <3>3
  <2> QED
    BY <2>2, <2>6, <2>7, NotLost DEF Orderly
<1>5. CASE ReadTimeout
  <2>1. CASE replaced
    BY <1>5, <2>1, QueueQuiet DEF ReadTimeout, queues, tools
  <2>2. CASE ~replaced
    BY <1>5, <2>2, QueueQuiet DEF ReadTimeout, queues, tools
  <2> QED
    BY <2>1, <2>2
<1>6. CASE SendCmd
  <2>1. /\ sent \in Seq(Cmds) /\ Handed \in Seq(Cmds) /\ cmdQueue \in Seq(Cmds)
        /\ Given(Handed) /\ Given(cmdQueue)
    BY ConcatProperties DEF TypeOK, QueuesOK, Handed
  <2>2. /\ cmdQueue # <<>> /\ cmdQueue' = Tail(cmdQueue) /\ lost = <<>>
        /\ sent' = Append(sent, Head(cmdQueue)) /\ lost' = <<>>
        /\ UNCHANGED <<inbox, orphan, replaced, at, sources, count, first, sourceQueue>>
    BY <1>6 DEF SendCmd, LostAtEnd, router, tools
  <2>a. Handed' = Append(Handed, Head(cmdQueue))
    <3>1. Head(cmdQueue) \in Cmds
      BY <2>1, <2>2, TailCmd
    <3>2. sent \o <<>> = sent /\ sent \o <<Head(cmdQueue)>> = Append(sent, Head(cmdQueue))
      BY <2>1, <3>1, HandedFact
    <3>3. Append(sent, Head(cmdQueue)) \o <<>> = Append(sent, Head(cmdQueue))
      BY <2>1, <3>1, HandedFact, AppendCmd
    <3> QED
      BY <2>2, <3>2, <3>3 DEF Handed
  <2>3. Given(Handed') /\ Given(cmdQueue')
    BY <2>1, <2>2, <2>a, GivenFact
  <2>4. QueuesOK'
    BY <2>2, <2>3 DEF QueuesOK, Given, Only
  <2>5. ASSUME NEW s \in Senders
        PROVE  InOrder(Way(s)', s) /\ \A x : Somewhere(Way(s), x) => Somewhere(Way(s)', x)
    <3>1. InOrder(Way(s), s)
      BY DEF Orderly
    <3>2. /\ Way(s)'[1] = Append(Way(s)[1], Head(Way(s)[2])) /\ Way(s)'[2] = Tail(Way(s)[2])
          /\ Way(s)[2] # <<>> /\ \A m \in 1 .. 5 \ {1, 2} : Way(s)'[m] = Way(s)[m]
      BY <2>2, <2>a DEF Way
    <3>3. Way(s) \in Rows
      BY WayFact
    <3>4. Moves(Way(s), Way(s)', 1, 2)
      BY <3>2 DEF Moves
    <3>5. 1 \in 1 .. 5 /\ 2 \in 1 .. 5 /\ 1 < 2
      OBVIOUS
    <3> QED
      BY ONLY <3>1, <3>3, <3>4, <3>5, Moved
  <2> QED
    BY <2>2, <2>4, <2>5, NotLost DEF Orderly
<1>7. CASE SendCmdFails
  <2>1. /\ sent \in Seq(Cmds) /\ Handed \in Seq(Cmds) /\ cmdQueue \in Seq(Cmds)
        /\ Given(Handed) /\ Given(cmdQueue)
    BY ConcatProperties DEF TypeOK, QueuesOK, Handed
  <2>2. /\ cmdQueue # <<>> /\ cmdQueue' = Tail(cmdQueue) /\ lost = <<>>
        /\ sent' = sent /\ lost' = <<Head(cmdQueue)>>
        /\ UNCHANGED <<inbox, orphan, replaced, at, sources, count, first, sourceQueue>>
    BY <1>7 DEF SendCmdFails, LostAtEnd, Stop, tools
  <2>a. Handed' = Append(Handed, Head(cmdQueue))
    <3>1. Head(cmdQueue) \in Cmds
      BY <2>1, <2>2, TailCmd
    <3>2. sent \o <<>> = sent /\ sent \o <<Head(cmdQueue)>> = Append(sent, Head(cmdQueue))
      BY <2>1, <3>1, HandedFact
    <3>3. Append(sent, Head(cmdQueue)) \o <<>> = Append(sent, Head(cmdQueue))
      BY <2>1, <3>1, HandedFact, AppendCmd
    <3> QED
      BY <2>2, <3>2, <3>3 DEF Handed
  <2>3. Given(Handed') /\ Given(cmdQueue')
    BY <2>1, <2>2, <2>a, GivenFact
  <2>4. QueuesOK'
    BY <2>2, <2>3 DEF QueuesOK, Given, Only
  <2>5. ASSUME NEW s \in Senders
        PROVE  InOrder(Way(s)', s) /\ \A x : Somewhere(Way(s), x) => Somewhere(Way(s)', x)
    <3>1. InOrder(Way(s), s)
      BY DEF Orderly
    <3>2. /\ Way(s)'[1] = Append(Way(s)[1], Head(Way(s)[2])) /\ Way(s)'[2] = Tail(Way(s)[2])
          /\ Way(s)[2] # <<>> /\ \A m \in 1 .. 5 \ {1, 2} : Way(s)'[m] = Way(s)[m]
      BY <2>2, <2>a DEF Way
    <3>3. Way(s) \in Rows
      BY WayFact
    <3>4. Moves(Way(s), Way(s)', 1, 2)
      BY <3>2 DEF Moves
    <3>5. 1 \in 1 .. 5 /\ 2 \in 1 .. 5 /\ 1 < 2
      OBVIOUS
    <3> QED
      BY ONLY <3>1, <3>3, <3>4, <3>5, Moved
  <2> QED
    BY <2>2, <2>4, <2>5, NotLost DEF Orderly
<1>8. CASE CmdsSent
  BY <1>8, QueueQuiet DEF CmdsSent, router, tlm, queues, ctrl, tools
<1>9. CASE RecvTlm
  BY <1>9, QueueQuiet DEF RecvTlm, router, tlm, queues, ctrl, tools
<1>10. CASE TlmClosed
  BY <1>10, QueueQuiet DEF TlmClosed, Stop, router, tlm, queues, ctrl, tools
<1>11. CASE AcquireMutex
  BY <1>11, QueueQuiet DEF AcquireMutex, router, tlm, queues, ctrl, tools
<1>12. CASE SendTlm
  BY <1>12, QueueQuiet DEF SendTlm, router, tlm, queues, ctrl, tools
<1>13. CASE SendTlmFails
  BY <1>13, QueueQuiet DEF SendTlmFails, Stop, router, tlm, queues, ctrl, tools
<1>14. CASE ReleaseMutex
  BY <1>14, QueueQuiet DEF ReleaseMutex, router, tlm, queues, ctrl, tools
<1>15. CASE ReadCtrl
  BY <1>15, QueueQuiet DEF ReadCtrl, router, tlm, queues, ctrl, tools
<1>16. CASE CtrlTimeout
  BY <1>16, QueueQuiet DEF CtrlTimeout, router, tlm, queues, ctrl, tools
<1>17. CASE RemoveDest
  BY <1>17, QueueQuiet DEF RemoveDest, router, tlm, queues, ctrl, tools
<1>18. CASE SetCfsIpAddr
  BY <1>18, QueueQuiet DEF SetCfsIpAddr, router, tlm, queues, ctrl, tools
<1>19. CASE PassEnds
  <2>1. ~replaced /\ ~replaced'
    BY <1>19 DEF PassEnds, Stop, TypeOK
  <2> QED
    BY <1>19, <2>1, QueueQuiet DEF PassEnds, Stop, queues, tools
<1>20. CASE TlmTimeout
  BY <1>20, QueueQuiet DEF TlmTimeout, router, tlm, queues, ctrl, tools
<1>21. CASE FinishLaunch
  BY <1>21, QueueQuiet DEF FinishLaunch, AddDest, router, tlm, queues, ctrl, tools
<1>22. CASE RouteCmd
  <2>1. cmdQueue \in Seq(Cmds) /\ sourceQueue \in Seq(Cmds) /\ Given(cmdQueue) /\ Given(sourceQueue)
    BY DEF TypeOK, QueuesOK
  <2>2. /\ sourceQueue # <<>> /\ cmdQueue' = Append(cmdQueue, Head(sourceQueue)) /\ sourceQueue' = Tail(sourceQueue)
        /\ UNCHANGED <<inbox, orphan, replaced, at, sources, count, first, Handed>>
    BY <1>22 DEF RouteCmd, router, tools, Handed
  <2>3. Given(cmdQueue') /\ Given(sourceQueue')
    BY <2>1, <2>2, GivenFact
  <2>4. \A i \in DOMAIN sourceQueue' : sourceQueue'[i].src # Gui
    BY <2>1, <2>2, TailCmd DEF QueuesOK
  <2>5. QueuesOK'
    BY <2>2, <2>3, <2>4 DEF QueuesOK, Given, Only
  <2>6. ASSUME NEW s \in Senders
        PROVE  InOrder(Way(s)', s) /\ \A x : Somewhere(Way(s), x) => Somewhere(Way(s)', x)
    <3>1. InOrder(Way(s), s)
      BY DEF Orderly
    <3>2. /\ Way(s)'[2] = Append(Way(s)[2], Head(Way(s)[3])) /\ Way(s)'[3] = Tail(Way(s)[3])
          /\ Way(s)[3] # <<>> /\ \A m \in 1 .. 5 \ {2, 3} : Way(s)'[m] = Way(s)[m]
      BY <2>2 DEF Way
    <3>3. Way(s) \in Rows
      BY WayFact
    <3>4. Moves(Way(s), Way(s)', 2, 3)
      BY <3>2 DEF Moves
    <3>5. 2 \in 1 .. 5 /\ 3 \in 1 .. 5 /\ 2 < 3
      OBVIOUS
    <3> QED
      BY ONLY <3>1, <3>3, <3>4, <3>5, Moved
  <2> QED
    BY <2>2, <2>5, <2>6, NotLost DEF Orderly
<1>23. CASE GuiCommand
  <2> DEFINE c == [src |-> Gui, n |-> count[Gui] + 1]
  <2>1. Gui \in Senders /\ count \in [Senders -> Nat] /\ c \in Cmds /\ c.src = Gui /\ c.n = count[Gui] + 1
    BY SetFact DEF TypeOK, Cmds
  <2>2. cmdQueue' = Append(cmdQueue, c)
        /\ count' = [count EXCEPT ![Gui] = count[Gui] + 1]
        /\ UNCHANGED <<Handed, sourceQueue, inbox, orphan, replaced, at, sources, first>>
    BY <1>23 DEF GuiCommand, router, tools, Handed
  <2> HIDE DEF c
  <2>3. \A s \in Senders : count'[s] = (IF s = Gui THEN c.n ELSE count[s]) /\ count[s] <= count'[s]
    BY <2>1, <2>2
  <2>4. ASSUME NEW q \in Seq(Cmds), Given(q)
        PROVE  \A i \in DOMAIN q : q[i].n <= count'[q[i].src]
    <3>1. \A i \in DOMAIN q : q[i] \in Cmds
      BY LenProperties, ElementOfSeq
    <3>2. \A i \in DOMAIN q :
            q[i].src \in Senders /\ q[i].n \in Nat /\ count[q[i].src] \in Nat /\ count'[q[i].src] \in Nat
      BY <2>1, <2>2, <3>1 DEF Cmds
    <3> QED
      BY <2>3, <2>4, <3>2 DEF Given
  <2>5. \A i \in DOMAIN cmdQueue' : cmdQueue'[i].n <= count'[cmdQueue'[i].src]
    <3>1. \A i \in DOMAIN cmdQueue' :
            (i \in DOMAIN cmdQueue /\ cmdQueue'[i] = cmdQueue[i]) \/ cmdQueue'[i] = c
      <4>1. cmdQueue \in Seq(Cmds) /\ c \in Cmds
        BY <2>1 DEF TypeOK
      <4> QED
        BY <2>2, <4>1, AppendCmd
    <3>2. c.n <= count'[c.src]
      BY <2>1, <2>3
    <3>3. \A i \in DOMAIN cmdQueue : cmdQueue[i].n <= count'[cmdQueue[i].src]
      BY <2>4 DEF TypeOK, QueuesOK
    <3> QED
      BY <3>1, <3>2, <3>3
  <2>6. QueuesOK'
    <3>1. Given(Handed)'
      BY <2>2, <2>4, HandedType DEF QueuesOK, Given
    <3> QED
      BY <2>2, <2>4, <2>5, <3>1 DEF QueuesOK, Given, Only, TypeOK
  <2>7. ASSUME NEW s \in Senders, s # Gui
        PROVE  InOrder(Way(s)', s) /\ \A x : Somewhere(Way(s), x) => Somewhere(Way(s)', x)
    <3>1. InOrder(Way(s), s) /\ Way(s) \in Rows
      BY WayFact DEF Orderly
    <3>2. Way(s)'[2] = Append(Way(s)[2], c) /\ \A m \in 1 .. 5 \ {2} : Way(s)'[m] = Way(s)[m]
      BY <2>2 DEF Way
    <3>3. Puts(Way(s), Way(s)', 2, c)
      BY <3>2 DEF Puts
    <3> QED
      BY <2>1, <2>7, <3>1, <3>3, Foreign
  <2>8. InOrder(Way(Gui)', Gui) /\ \A x : Somewhere(Way(Gui), x) \/ x = c => Somewhere(Way(Gui)', x)
    <3>1. InOrder(Way(Gui), Gui) /\ Way(Gui) \in Rows
      BY <2>1, WayFact DEF Orderly
    <3>2. Way(Gui)'[2] = Append(Way(Gui)[2], c) /\ \A m \in 1 .. 5 \ {2} : Way(Gui)'[m] = Way(Gui)[m]
      BY <2>2 DEF Way
    <3>3. \A m \in 1 .. 5 : \A i \in DOMAIN Way(Gui)[m] :
            Way(Gui)[m][i].src = Gui => m <= 2 /\ Way(Gui)[m][i].n < c.n
      <4> SUFFICES ASSUME NEW m \in 1 .. 5, NEW i \in DOMAIN Way(Gui)[m], Way(Gui)[m][i].src = Gui
                   PROVE  m <= 2 /\ Way(Gui)[m][i].n < c.n
        OBVIOUS
      <4>1. replaced => sources[at] # Gui
        BY SourceFact, SetFact DEF TypeOK
      <4>2. DOMAIN Way(Gui)[4] = {} /\ DOMAIN Way(Gui)[5] = {}
        BY <2>1, <4>1, WayFact, EmptySeq
      <4>3. m # 3
        BY <2>1, WayFact DEF QueuesOK
      <4>4. Given(Way(Gui)[1]) /\ Given(Way(Gui)[2])
        BY <2>1, WayFact DEF QueuesOK
      <4>5. m \in {1, 2}
        BY <4>2, <4>3
      <4>6. Way(Gui)[m] \in Seq(Cmds)
        BY <3>1 DEF Rows
      <4>7. Way(Gui)[m][i] \in Cmds
        BY <4>6, LenProperties, ElementOfSeq
      <4>8. Way(Gui)[m][i].n <= count[Gui] /\ Way(Gui)[m][i].n \in Nat
        BY <4>4, <4>5, <4>7 DEF Given, Cmds
      <4> QED
        BY <2>1, <4>5, <4>8
    <3>4. c \in Cmds
      BY <2>1
    <3>5. Puts(Way(Gui), Way(Gui)', 2, c)
      BY <3>2 DEF Puts
    <3> QED
      BY <3>1, <3>3, <3>4, <3>5, Added
  <2>9. ASSUME NEW s \in Senders PROVE NoneLost(s)'
    <3> SUFFICES ASSUME NEW n \in first[s] + 1 .. count'[s]
                 PROVE  Somewhere(Way(s)', [src |-> s, n |-> n])
      BY <2>2 DEF NoneLost
    <3>1. first[s] \in Nat /\ count[s] \in Nat /\ NoneLost(s)
      BY <2>2 DEF TypeOK, Orderly
    <3>2. CASE n \in first[s] + 1 .. count[s]
      BY <2>7, <2>8, <3>1, <3>2 DEF NoneLost
    <3>3. CASE s = Gui /\ n = count[Gui] + 1
      BY <2>8, <3>3 DEF c
    <3> QED
      BY <2>1, <2>3, <3>1, <3>2, <3>3
  <2> QED
    BY <2>6, <2>7, <2>8, <2>9 DEF Orderly
<1>24. CASE Shutdown
  BY <1>24, QueueQuiet DEF Shutdown, queues, router
<1>25. CASE TlmArrives
  BY <1>25, QueueQuiet DEF TlmArrives, router, tlm, queues, ctrl, tools
<1>26. ASSUME NEW t \in Tools, Launch(t) PROVE QueuesOK' /\ Orderly'
  <2>1. UNCHANGED <<sourceQueue, cmdQueue, sent, lost, count, at>>
    BY <1>26 DEF Launch
  <2>2. CASE t \in CmdTools
    BY <1>26, <2>1, <2>2, AddSourceStep DEF Launch
  <2>3. CASE t \notin CmdTools
    BY <1>26, <2>1, <2>3, QueueQuiet DEF Launch
  <2> QED
    BY <2>2, <2>3
<1>27. ASSUME NEW t \in Tools, BindFails(t) PROVE QueuesOK' /\ Orderly'
  BY <1>27, QueueQuiet DEF BindFails, MayLaunch, router, tlm, queues, ctrl, tools
<1>28. ASSUME NEW t \in Tools, CloseTool(t) PROVE QueuesOK' /\ Orderly'
  BY <1>28, QueueQuiet DEF CloseTool, router, tlm, queues, ctrl, tools
<1>29. ASSUME NEW t \in CmdTools, ToolSends(t) PROVE QueuesOK' /\ Orderly'
  <2>0. t \in CmdTools /\ t # Gui /\ inbox \in [CmdTools -> Seq(Cmds)]
    BY SetFact DEF TypeOK
  <2> DEFINE c == [src |-> t, n |-> count[t] + 1]
  <2>1. t \in Senders /\ count \in [Senders -> Nat] /\ c \in Cmds /\ c.src = t /\ c.n = count[t] + 1
    <3>1. t \in Senders /\ count \in [Senders -> Nat]
      BY SetFact DEF TypeOK
    <3>2. count[t] + 1 \in Nat
      BY <3>1
    <3> QED
      BY <3>1, <3>2 DEF Cmds
  <2>2. inbox' = [inbox EXCEPT ![t] = Append(inbox[t], c)]
        /\ count' = [count EXCEPT ![t] = count[t] + 1]
        /\ UNCHANGED <<Handed, sourceQueue, cmdQueue, orphan, replaced, at, sources, first>>
    BY <1>29 DEF ToolSends, router, tools, Handed
  <2> HIDE DEF c
  <2>3. \A s \in Senders : count'[s] = (IF s = t THEN c.n ELSE count[s]) /\ count[s] <= count'[s]
    BY <2>1, <2>2
  <2>4. ASSUME NEW q \in Seq(Cmds), Given(q)
        PROVE  \A i \in DOMAIN q : q[i].n <= count'[q[i].src]
    <3>1. \A i \in DOMAIN q : q[i] \in Cmds
      BY LenProperties, ElementOfSeq
    <3>2. \A i \in DOMAIN q :
            q[i].src \in Senders /\ q[i].n \in Nat /\ count[q[i].src] \in Nat /\ count'[q[i].src] \in Nat
      BY <2>1, <2>2, <3>1 DEF Cmds
    <3> QED
      BY <2>3, <2>4, <3>2 DEF Given
  <2>5. \A u \in CmdTools :
          /\ \A i \in DOMAIN inbox'[u] : inbox'[u][i].n <= count'[inbox'[u][i].src]
          /\ Only(inbox'[u], u)
    <3>1. \A i \in DOMAIN inbox'[t] :
            (i \in DOMAIN inbox[t] /\ inbox'[t][i] = inbox[t][i]) \/ inbox'[t][i] = c
      BY <2>0, <2>1, <2>2, AppendCmd
    <3>2. c.n <= count'[c.src]
      BY <2>1, <2>3
    <3>3. \A u \in CmdTools : \A i \in DOMAIN inbox[u] : inbox[u][i].n <= count'[inbox[u][i].src]
      BY <2>0, <2>4 DEF QueuesOK
    <3>4. Only(inbox'[t], t)
      BY <2>0, <2>1, <2>2, OnlyFact DEF QueuesOK
    <3>5. \A u \in CmdTools : u # t => inbox'[u] = inbox[u]
      BY <2>0, <2>2
    <3> QED
      BY <3>1, <3>2, <3>3, <3>4, <3>5 DEF QueuesOK
  <2>6. QueuesOK'
    <3>1. Given(Handed)'
      BY <2>2, <2>4, HandedType DEF QueuesOK, Given
    <3> QED
      BY <2>2, <2>4, <2>5, <3>1 DEF QueuesOK, Given, Only, TypeOK
  <2>7. ASSUME NEW s \in Senders, s # t
        PROVE  InOrder(Way(s)', s) /\ \A x : Somewhere(Way(s), x) => Somewhere(Way(s)', x)
    <3>1. Way(s)' = Way(s)
      BY <2>0, <2>2, <2>7 DEF Way, Senders
    <3> QED
      BY <3>1 DEF Orderly
  <2>8. InOrder(Way(t)', t) /\ \A x : Somewhere(Way(t), x) \/ x = c => Somewhere(Way(t)', x)
    <3>1. InOrder(Way(t), t) /\ Way(t) \in Rows
      BY <2>1, WayFact DEF Orderly
    <3>2. Way(t)'[5] = Append(Way(t)[5], c) /\ \A m \in 1 .. 5 \ {5} : Way(t)'[m] = Way(t)[m]
      BY <2>0, <2>2 DEF Way
    <3>3. \A m \in 1 .. 5 : \A i \in DOMAIN Way(t)[m] :
            Way(t)[m][i].src = t => m <= 5 /\ Way(t)[m][i].n < c.n
      <4> SUFFICES ASSUME NEW m \in 1 .. 5, NEW i \in DOMAIN Way(t)[m], Way(t)[m][i].src = t
                   PROVE  m <= 5 /\ Way(t)[m][i].n < c.n
        OBVIOUS
      <4>1. \A k \in 1 .. 5 : Given(Way(t)[k])
        <5>1. Given(Way(t)[1]) /\ Given(Way(t)[2]) /\ Given(Way(t)[3])
          BY <2>1, WayFact DEF QueuesOK
        <5>2. Given(Way(t)[4])
          BY <2>1, WayFact, NothingFact DEF QueuesOK
        <5>3. Given(Way(t)[5])
          BY <2>0, <2>1, WayFact DEF QueuesOK
        <5> QED
          BY <5>1, <5>2, <5>3
      <4>2. Way(t)[m] \in Seq(Cmds)
        BY <3>1 DEF Rows
      <4>3. Way(t)[m][i] \in Cmds
        BY <4>2, LenProperties, ElementOfSeq
      <4>4. Way(t)[m][i].n <= count[t] /\ Way(t)[m][i].n \in Nat
        BY <4>1, <4>3 DEF Given, Cmds
      <4> QED
        BY <2>1, <4>4
    <3>4. c \in Cmds
      BY <2>1
    <3>5. Puts(Way(t), Way(t)', 5, c)
      BY <3>2 DEF Puts
    <3> QED
      BY <3>1, <3>3, <3>4, <3>5, Added
  <2>9. ASSUME NEW s \in Senders PROVE NoneLost(s)'
    <3> SUFFICES ASSUME NEW n \in first[s] + 1 .. count'[s]
                 PROVE  Somewhere(Way(s)', [src |-> s, n |-> n])
      BY <2>2 DEF NoneLost
    <3>1. first[s] \in Nat /\ count[s] \in Nat /\ NoneLost(s)
      BY <2>2 DEF TypeOK, Orderly
    <3>2. CASE n \in first[s] + 1 .. count[s]
      BY <2>7, <2>8, <3>1, <3>2 DEF NoneLost
    <3>3. CASE s = t /\ n = count[t] + 1
      BY <2>8, <3>3 DEF c
    <3> QED
      BY <2>1, <2>3, <3>1, <3>2, <3>3
  <2> QED
    BY <2>6, <2>7, <2>8, <2>9 DEF Orderly
<1>30. ASSUME NEW t \in CmdTools, SetTarget(t) PROVE QueuesOK' /\ Orderly'
  BY <1>30, QueueQuiet DEF SetTarget, router, tlm, queues, ctrl, tools
<1>31. ASSUME NEW r \in Remotes, Connect(r) PROVE QueuesOK' /\ Orderly'
  BY <1>31, QueueQuiet DEF Connect, AddDest, router, tlm, queues, ctrl, tools
<1>32. CASE OtherCtrl
  <2>1. ~replaced /\ ~replaced'
    BY <1>32 DEF OtherCtrl, Stop, TypeOK, router
  <2> QED
    BY <1>32, <2>1, QueueQuiet DEF OtherCtrl, Stop, router, queues, tools
<1>33. CASE ConnectFails
  BY <1>33, QueueQuiet DEF ConnectFails, router, tlm, queues, ctrl, tools
<1>34. CASE StrayCtrl
  BY <1>34, QueueQuiet DEF StrayCtrl, router, tlm, queues, ctrl, tools
<1>35. CASE UNCHANGED vars
  BY <1>35, QueueQuiet DEF vars, router, tlm, queues, ctrl, tools
<1> QED
  BY <1>1, <1>2, <1>3, <1>4, <1>5, <1>6, <1>7, <1>8, <1>9, <1>10, <1>11, <1>12, <1>13, <1>14,
     <1>15, <1>16, <1>17, <1>18, <1>19, <1>20, <1>21, <1>22, <1>23, <1>24, <1>25, <1>26, <1>27,
     <1>28, <1>29, <1>30, <1>31, <1>32, <1>33, <1>34, <1>35 DEF Next, Router

-----------------------------------------------------------------------------
(* The inductive invariant.                                                 *)

LEMMA InitInv == Init => IInv
<1> SUFFICES ASSUME Init PROVE IInv
    OBVIOUS
<1>1. TypeOK
  BY InitType
<1>2. MutexHeld /\ ThreadOK
  BY DEF Init, MutexHeld, ThreadOK
<1>3. StopsWhenTold
  <2>1. size = Len(sources)
    BY EmptySeq DEF Init
  <2> QED
    BY <2>1 DEF Init, StopsWhenTold
<1>4. Served /\ SinceOK /\ OpenToolsListed /\ LaunchOK /\ CtrlOK
  BY SetFact DEF Init, Served, SinceOK, OpenToolsListed, LaunchOK, CtrlOK, Pending, Has
<1>7. Handed = <<>>
  BY <1>1, ConcatEmptySeq DEF Init, TypeOK, Handed
<1>5. QueuesOK
  BY <1>7, NothingFact, EmptySeq DEF Init, QueuesOK
<1>6. ASSUME NEW s \in Senders PROVE InOrder(Way(s), s) /\ NoneLost(s)
  <2>1. \A m \in 1 .. 5 : Way(s)[m] = <<>>
    BY <1>1, <1>6, <1>7, WayFact DEF Init, Senders
  <2>2. InOrder(Way(s), s)
    BY <2>1, EmptyFact DEF InOrder
  <2>3. NoneLost(s)
    BY DEF Init, NoneLost
  <2> QED
    BY <2>2, <2>3
<1>8. lost = <<>>
  BY DEF Init
<1> QED
  BY <1>1, <1>2, <1>3, <1>4, <1>5, <1>6, <1>8 DEF IInv, StateOK, CommandsInOrder

\* The inductive invariant, from which the other theorems follow: the places
\* of the router's thread (cmdtlmrouter.py:221-269), who holds the mutex, which
\* requests to close a port are under way, and what lies in which queue.
THEOREM Inductive == Spec => []IInv
<1>1. IInv /\ [Next]_vars => IInv'
  <2> SUFFICES ASSUME IInv, [Next]_vars PROVE IInv'
    OBVIOUS
  <2> USE DEF IInv, StateOK
  <2>1. TypeOK'
    BY TypeStep
  <2>2. MutexHeld' /\ StopsWhenTold' /\ ThreadOK' /\ CtrlOK'
    BY ThreadStep, CtrlStep
  <2>3. Served' /\ SinceOK'
    BY ServedStep
  <2>4. OpenToolsListed' /\ LaunchOK'
    BY LaunchStep
  <2>5. LostAtEnd'
    BY LostStep DEF CommandsInOrder, LostAtEnd
  <2>6. QueuesOK' /\ Orderly'
    BY QueueStep DEF CommandsInOrder, LostAtEnd, Orderly
  <2> QED
    BY <2>1, <2>2, <2>3, <2>4, <2>5, <2>6 DEF CommandsInOrder, LostAtEnd, Orderly
<1> QED
  BY <1>1, InitInv, PTL DEF Spec

\* The telemetry mutex is held for one fan-out, or kept by a thread that an
\* exception ended (cmdtlmrouter.py:247, 277-282) and by no other; while the
\* window is open that takes a failing sendto or a datagram that cannot be
\* parsed.  Every listed destination got what was routed since (245-249), for
\* a patient user the port of a running tool is listed, and the router stops
\* when it is told to, and before only by one of these faults or for a source
\* that is added while it iterates (231).
THEOREM StateCorrect == Spec => []StateOK
<1>1. IInv => StateOK
  BY DEF IInv
<1> QED
  BY <1>1, Inductive, PTL

\* The commands of each sender pass the queues of the router and the main
\* window in order (cmdtlmrouter.py:231-236, basecamp.py:1268).  None is lost
\* but what a tool left in its socket when it was launched again, and the one
\* at hand when a sendto raises an exception, with which the thread ends.
THEOREM OrderCorrect == Spec => []CommandsInOrder
<1>1. IInv => CommandsInOrder
  BY DEF IInv
<1> QED
  BY <1>1, Inductive, PTL
=============================================================================
