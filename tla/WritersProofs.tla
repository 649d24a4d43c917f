--------------------------- MODULE WritersProofs ---------------------------
(***************************************************************************)
(* The promises of the output backends, for any number of workers, any     *)
(* configuration of backends and any batches: connections are not leaked,  *)
(* a batch without an error was taken, every event is tried everywhere, a  *)
(* write is repeated once at most, and batches are not mixed.              *)
(***************************************************************************)
EXTENDS WritersProps, SumTheorems, TLAPS

----------------------------------------------------------------------------
(* The connections                                                         *)

(* Close comes when nobody is inside a backend, and nobody enters one after. *)
NobodyAfterClose == closed => \A w \in Workers : pc[w] = "idle"

ConnInv ==
  /\ DOMAIN pc = Workers /\ DOMAIN conn = Backends /\ DOMAIN open = Backends
  /\ NobodyAfterClose /\ OneConnection

(* A reconnect, whether its dial succeeds or fails, leaves one connection at most. *)
LEMMA RetryKeepsConn ==
  ASSUME ConnInv, NEW w \in Workers, Reconnect(w) \/ ReconnectFails(w)
  PROVE  ConnInv'
<1>1. /\ pc[w] = "reconnect" /\ ~closed /\ closed' = closed /\ targets' = targets
      /\ DOMAIN pc' = Workers
  BY DEF Reconnect, ReconnectFails, NextFrame, To, ConnInv, NobodyAfterClose
<1>2. CASE Reconnect(w)
  <2>1. /\ conn' = [conn EXCEPT ![at[w]] = dialled[at[w]] + 1]
        /\ open' = [open EXCEPT ![at[w]] = (@ \ {conn[at[w]]}) \cup {dialled[at[w]] + 1}]
    BY <1>2 DEF Reconnect
  <2>2. ASSUME NEW t \in Backends PROVE open'[t] \subseteq {conn'[t]}
    <3>1. CASE t = at[w]
      BY <2>1, <3>1 DEF ConnInv, OneConnection
    <3>2. CASE t # at[w]
      BY <2>1, <3>2 DEF ConnInv, OneConnection
    <3>. QED  BY <3>1, <3>2
  <2>. QED  BY <1>1, <2>1, <2>2 DEF ConnInv, OneConnection, NobodyAfterClose, Backends
<1>3. CASE ReconnectFails(w)
  <2>1. conn' = conn /\ DOMAIN open' = DOMAIN open
    BY <1>3 DEF ReconnectFails
  <2>2. ASSUME NEW t \in Backends PROVE open'[t] \subseteq open[t]
    BY <1>3 DEF ReconnectFails, ConnInv
  <2>3. \A t \in Backends : open'[t] \subseteq {conn'[t]}
    BY <2>1, <2>2 DEF ConnInv, OneConnection
  <2>. QED  BY <1>1, <2>1, <2>3 DEF ConnInv, OneConnection, NobodyAfterClose, Backends
<1>. QED  BY <1>2, <1>3

(* The other steps of WriteBatch leave the connections alone. *)
LEMMA OthersKeepConn ==
  ASSUME ConnInv, NEW w \in Workers,
         Call(w) \/ (WriteBatch(w) /\ ~Reconnect(w) /\ ~ReconnectFails(w))
  PROVE  ConnInv'
<1>1. UNCHANGED <<targets, conn, open, closed>>
  BY DEF Call, WriteBatch, Build, BuildNothing, BuildWindow, BuildSerial, Lock, SendTaken,
     SendFails, ResendFails, Unlock, Record, RecordsEnd, Return, connVars
<1>2. DOMAIN pc' = Workers
  BY DEF Call, WriteBatch, Build, BuildNothing, BuildWindow, BuildSerial, Lock, SendTaken,
     SendFails, ResendFails, Unlock, Record, RecordsEnd, Return, NextFrame, NextTarget, To,
     ConnInv
<1>3. ~closed
  <2>1. Call(w) => ~closed
    BY DEF Call
  <2>2. WriteBatch(w) => pc[w] # "idle"
    BY DEF WriteBatch, Build, BuildNothing, BuildWindow, BuildSerial, Lock, SendTaken,
       SendFails, Reconnect, ReconnectFails, ResendFails, Unlock, Record, RecordsEnd, Return
  <2>. QED  BY <2>1, <2>2 DEF ConnInv, NobodyAfterClose
<1>. QED  BY <1>1, <1>2, <1>3 DEF ConnInv, OneConnection, NobodyAfterClose, Backends

(* Close leaves a backend no connection. *)
LEMMA CloseKeepsConn ==
  ASSUME ConnInv, Close
  PROVE  ConnInv'
<1>1. /\ open' = [t \in Backends |-> open[t] \ {conn[t]}] /\ closed'
      /\ UNCHANGED <<targets, conn, pc>> /\ \A w \in Workers : pc[w] = "idle"
  BY Zenon DEF Close, callVars
<1>2. \A t \in Backends : open'[t] = {}
  BY <1>1 DEF ConnInv, OneConnection
<1>. QED  BY <1>1, <1>2 DEF ConnInv, OneConnection, NobodyAfterClose, Backends

(* A backend never has more than one connection that it has not closed, however
   often its sends fail and it dials again, and none once the queue closed it. *)
THEOREM ConnectionsAreNotLeaked == Spec => []OneConnection
<1>1. Init => ConnInv
  BY DEF Init, ConnInv, NobodyAfterClose, OneConnection, Backends
<1>2. ConnInv /\ [Next]_vars => ConnInv'
  <2> SUFFICES ASSUME ConnInv, [Next]_vars PROVE ConnInv'
    OBVIOUS
  <2>1. CASE UNCHANGED vars
    BY <2>1 DEF vars, connVars, callVars, ConnInv, OneConnection, NobodyAfterClose, Backends
  <2>2. ASSUME NEW w \in Workers, Call(w) \/ WriteBatch(w) PROVE ConnInv'
    BY <2>2, RetryKeepsConn, OthersKeepConn
  <2>. QED  BY <2>1, <2>2, CloseKeepsConn DEF Next
<1>3. ConnInv => OneConnection
  BY DEF ConnInv
<1>. QED  BY <1>1, <1>2, <1>3, PTL DEF Spec

----------------------------------------------------------------------------
(* What becomes of the events of a batch                                   *)

(* The events of a sequence of writes, and that none is in them twice. *)
EventsOf(fs) == UNION {Range(fs[i]) : i \in DOMAIN fs}
Distinct(fs) ==
  \A i, j \in DOMAIN fs : \A a \in DOMAIN fs[i], b \in DOMAIN fs[j] :
    fs[i][a] = fs[j][b] => i = j /\ a = b

(* How often e is in s. *)
Count(s, e) == Cardinality({i \in DOMAIN s : s[i] = e})

Mine(w)    == Range(batch[w])
Pending(w) == EventsOf(frames[w])

(* Control points between the encoding of a batch and the next backend, those of
   them that hold the mutex, and those in the middle of a repeated write. *)
Locked  == {"send", "reconnect", "resend", "unlock"}
Working == Locked \cup {"lock", "record"}
Retrying == {"reconnect", "resend"}

WriterTypes ==
  /\ targets \in Seq(Protocols) /\ targets # <<>>
  /\ mu \in [Backends -> Workers \cup {NoOne}]
  /\ pc \in [Workers -> Pc] /\ at \in [Workers -> Backends]
  /\ batch \in [Workers -> Seq(Nat)] /\ frames \in [Workers -> Seq(Seq(Nat))]
  /\ failed \in [Workers -> BOOLEAN] /\ calls \in Nat
  /\ taken \in [Backends -> Seq(Nat)]
  /\ tried \in [Backends -> SUBSET Nat] /\ resent \in [Backends -> SUBSET Nat]

(* Every event was brought once, by one worker. *)
BatchesApart ==
  /\ \A w \in Workers :
       /\ pc[w] = "idle" => batch[w] = <<>>
       /\ Mine(w) \subseteq 1..calls /\ IsInjective(batch[w])
  /\ \A v, w \in Workers : v # w => Mine(v) \cap Mine(w) = {}
  /\ \A t \in Backends : Range(taken[t]) \subseteq 1..calls

(* The writes to be made are writes of the batch, of each event once. *)
FramesOf(w) ==
  /\ pc[w] \in {"idle", "build", "unlock", "return"} => frames[w] = <<>>
  /\ pc[w] \in {"lock", "send", "reconnect", "resend"} => frames[w] # <<>>
  /\ pc[w] \in {"lock", "send", "reconnect", "resend", "unlock"} => targets[at[w]] # "serial"
  /\ pc[w] = "record" => targets[at[w]] = "serial"
  /\ Pending(w) \subseteq Mine(w) /\ Distinct(frames[w])

(* What was asked of the backends so far. *)
TriedSoFar(w) ==
  /\ \A t \in Backends : t < at[w] => Mine(w) \subseteq tried[t]
  /\ pc[w] \in Working => Mine(w) \subseteq tried[at[w]] \cup Pending(w)
  /\ pc[w] \in Retrying => Range(Head(frames[w])) \subseteq tried[at[w]]
  /\ pc[w] = "return" => at[w] = Len(targets) /\ Mine(w) \subseteq tried[at[w]]

(* What the backends took, unless an error says that they did not. *)
TakenSoFar(w) ==
  ~failed[w] =>
    /\ \A t \in Backends : t < at[w] => Mine(w) \subseteq Range(taken[t])
    /\ pc[w] \in Working => Mine(w) \subseteq Range(taken[at[w]]) \cup Pending(w)
    /\ pc[w] = "return" => Mine(w) \subseteq Range(taken[at[w]])

(* What they cannot have taken yet, and what they have taken once at most. *)
FreshFor(w) ==
  /\ \A t \in Backends : t > at[w] => Mine(w) \cap Range(taken[t]) = {}
  /\ pc[w] \in {"build", "lock"} => Mine(w) \cap Range(taken[at[w]]) = {}
  /\ pc[w] \in {"send", "record"} => Pending(w) \cap Range(taken[at[w]]) = {}
  /\ pc[w] \in Retrying =>
       /\ EventsOf(Tail(frames[w])) \cap Range(taken[at[w]]) = {}
       /\ \A e \in Range(Head(frames[w])) : Count(taken[at[w]], e) <= 1
  /\ pc[w] = "resend" => Range(Head(frames[w])) \subseteq resent[at[w]]

(* Who is between Lock and Unlock holds the mutex, and what the backend took last
   is of its batch, if anything of its batch was taken. *)
HoldsMutex(w) ==
  pc[w] \in Locked =>
    /\ mu[at[w]] = w
    /\ LET s == taken[at[w]] IN Mine(w) \cap Range(s) # {} => s[Len(s)] \in Mine(w)

----------------------------------------------------------------------------
(* Writes and the sequences they are taken into                            *)

(* The first of several writes, and the others. *)
LEMMA HeadAndTail ==
  ASSUME NEW fs \in Seq(Seq(Nat)), fs # <<>>
  PROVE  /\ Head(fs) \in Seq(Nat) /\ Tail(fs) \in Seq(Seq(Nat))
         /\ EventsOf(fs) = Range(Head(fs)) \cup EventsOf(Tail(fs))
         /\ Distinct(fs) => /\ IsInjective(Head(fs)) /\ Distinct(Tail(fs))
                            /\ Range(Head(fs)) \cap EventsOf(Tail(fs)) = {}
         /\ Len(fs) = 1 <=> Tail(fs) = <<>>
<1>1. /\ Len(fs) \in Nat \ {0} /\ DOMAIN fs = 1..Len(fs) /\ Head(fs) = fs[1]
      /\ Tail(fs) \in Seq(Seq(Nat)) /\ Len(Tail(fs)) = Len(fs) - 1
      /\ DOMAIN Tail(fs) = 1..(Len(fs) - 1)
      /\ \A i \in 1..(Len(fs) - 1) : Tail(fs)[i] = fs[i + 1]
  OBVIOUS
<1> DEFINE h == Head(fs)
           r == Tail(fs)
           n == Len(fs)
<1> HIDE DEF h, r, n
<1>2. /\ n \in Nat \ {0} /\ DOMAIN fs = 1..n /\ h = fs[1] /\ DOMAIN r = 1..(n - 1)
      /\ \A i \in 1..(n - 1) : r[i] = fs[i + 1]
  BY <1>1 DEF h, r, n
<1>3. 1 \in 1..n /\ \A i \in 1..(n - 1) : i + 1 \in 1..n
  BY <1>2
<1>4. \A i \in 1..n : i = 1 \/ (i - 1 \in 1..(n - 1) /\ (i - 1) + 1 = i)
  BY <1>2
<1>5. EventsOf(fs) = Range(h) \cup EventsOf(r)
  <2>1. EventsOf(fs) \subseteq Range(h) \cup EventsOf(r)
    <3> SUFFICES ASSUME NEW i \in 1..n PROVE Range(fs[i]) \subseteq Range(h) \cup EventsOf(r)
      BY <1>2 DEF EventsOf
    <3>1. CASE i = 1
      BY <1>2, <3>1
    <3>2. CASE i - 1 \in 1..(n - 1) /\ (i - 1) + 1 = i
      <4>1. r[i - 1] = fs[(i - 1) + 1]
        BY <1>2, <3>2
      <4>2. r[i - 1] = fs[i] /\ i - 1 \in DOMAIN r
        BY <1>2, <3>2, <4>1
      <4>. QED  BY <4>2 DEF EventsOf
    <3>. QED  BY <1>4, <3>1, <3>2
  <2>2. Range(h) \subseteq EventsOf(fs)
    BY <1>2, <1>3 DEF EventsOf
  <2>3. EventsOf(r) \subseteq EventsOf(fs)
    BY <1>2, <1>3 DEF EventsOf
  <2>. QED  BY <2>1, <2>2, <2>3
<1>6. ASSUME Distinct(fs)
      PROVE  IsInjective(h) /\ Distinct(r) /\ Range(h) \cap EventsOf(r) = {}
  <2>1. IsInjective(h)
    <3>1. 1 \in DOMAIN fs /\ h = fs[1]
      BY <1>2, <1>3
    <3>2. \A a, b \in DOMAIN fs[1] : fs[1][a] = fs[1][b] => a = b
      BY <1>6, <3>1 DEF Distinct
    <3>. QED  BY <3>1, <3>2 DEF IsInjective
  <2>2. Distinct(r)
    <3> SUFFICES ASSUME NEW i \in DOMAIN r, NEW j \in DOMAIN r, NEW a \in DOMAIN r[i],
                        NEW b \in DOMAIN r[j], r[i][a] = r[j][b]
                 PROVE  i = j /\ a = b
      BY DEF Distinct
    <3>1. /\ i \in 1..(n - 1) /\ j \in 1..(n - 1) /\ r[i] = fs[i + 1] /\ r[j] = fs[j + 1]
          /\ i + 1 \in DOMAIN fs /\ j + 1 \in DOMAIN fs
      BY <1>2, <1>3
    <3>2. i + 1 = j + 1 /\ a = b
      BY <1>6, <3>1 DEF Distinct
    <3>. QED  BY <3>1, <3>2, <1>2
  <2>3. Range(h) \cap EventsOf(r) = {}
    <3> SUFFICES ASSUME NEW a \in DOMAIN h, NEW i \in DOMAIN r, NEW b \in DOMAIN r[i],
                        h[a] = r[i][b]
                 PROVE  FALSE
      BY DEF Range, EventsOf
    <3>1. i \in 1..(n - 1) /\ r[i] = fs[i + 1] /\ i + 1 \in DOMAIN fs /\ 1 \in DOMAIN fs
      BY <1>2, <1>3
    <3>2. a \in DOMAIN fs[1] /\ b \in DOMAIN fs[i + 1] /\ fs[1][a] = fs[i + 1][b]
      BY <1>2, <3>1
    <3>3. 1 = i + 1
      BY <1>6, <3>1, <3>2 DEF Distinct
    <3>. QED  BY <1>2, <3>1, <3>3
  <2>. QED  BY <2>1, <2>2, <2>3
<1>7. Len(fs) = 1 <=> Tail(fs) = <<>>
  <2>1. \A q \in Seq(Seq(Nat)) : q = <<>> <=> Len(q) = 0
    OBVIOUS
  <2>2. Tail(fs) = <<>> <=> Len(Tail(fs)) = 0
    BY <1>1, <2>1
  <2>. QED  BY <1>1, <2>2
<1>. QED  BY <1>1, <1>5, <1>6, <1>7 DEF h, r

(* A batch as one write. *)
LEMMA OneFrame ==
  ASSUME NEW s \in Seq(Nat)
  PROVE  /\ <<s>> \in Seq(Seq(Nat)) /\ <<s>> # <<>> /\ EventsOf(<<s>>) = Range(s)
         /\ IsInjective(s) => Distinct(<<s>>)
BY DEF EventsOf, Distinct, IsInjective

(* A batch as one write for each event. *)
LEMMA FrameEach ==
  ASSUME NEW s \in Seq(Nat), NEW fs, fs = [i \in 1..Len(s) |-> <<s[i]>>]
  PROVE  /\ fs \in Seq(Seq(Nat)) /\ (s # <<>> => fs # <<>>) /\ EventsOf(fs) = Range(s)
         /\ IsInjective(s) => Distinct(fs)
<1>1. Len(s) \in Nat /\ DOMAIN s = 1..Len(s) /\ \A i \in 1..Len(s) : s[i] \in Nat
  OBVIOUS
<1>2. fs \in Seq(Seq(Nat)) /\ Len(fs) = Len(s) /\ DOMAIN fs = 1..Len(s)
  BY <1>1
<1>3. \A i \in 1..Len(s) : DOMAIN fs[i] = {1} /\ fs[i][1] = s[i]
  BY <1>1
<1>4. EventsOf(fs) = Range(s)
  <2>1. ASSUME NEW i \in 1..Len(s) PROVE Range(fs[i]) = {s[i]}
    <3>1. Range(fs[i]) \subseteq {s[i]}
      BY <1>3 DEF Range
    <3>2. s[i] \in Range(fs[i])
      BY <1>3 DEF Range
    <3>. QED  BY <3>1, <3>2
  <2>2. EventsOf(fs) \subseteq Range(s)
    <3>1. \A i \in 1..Len(s) : Range(fs[i]) \subseteq Range(s)
      BY <1>1, <2>1 DEF Range
    <3>. QED  BY <1>2, <3>1 DEF EventsOf
  <2>3. ASSUME NEW i \in 1..Len(s) PROVE s[i] \in EventsOf(fs)
    <3>1. s[i] \in Range(fs[i]) /\ i \in DOMAIN fs
      BY <1>2, <2>1
    <3>. QED  BY <3>1 DEF EventsOf
  <2>4. Range(s) \subseteq EventsOf(fs)
    BY <1>1, <2>3 DEF Range
  <2>. QED  BY <2>2, <2>4
<1>5. IsInjective(s) => Distinct(fs)
  <2> SUFFICES ASSUME IsInjective(s), NEW i \in 1..Len(s), NEW j \in 1..Len(s),
                      NEW a \in DOMAIN fs[i], NEW b \in DOMAIN fs[j], fs[i][a] = fs[j][b]
               PROVE  i = j /\ a = b
    BY <1>2 DEF Distinct
  <2>1. a = 1 /\ b = 1
    BY <1>3
  <2>2. s[i] = s[j]
    BY <1>3, <2>1
  <2>. QED  BY <1>1, <2>1, <2>2 DEF IsInjective
<1>6. s # <<>> => fs # <<>>
  BY <1>1, <1>2
<1>. QED  BY <1>2, <1>4, <1>5, <1>6

(* What is taken of a write is a part of it. *)
LEMMA PrefixOfFrame ==
  ASSUME NEW s \in Seq(Nat), NEW n \in 0..Len(s)
  PROVE  /\ SubSeq(s, 1, n) \in Seq(Nat) /\ Range(SubSeq(s, 1, n)) \subseteq Range(s)
         /\ IsInjective(s) => IsInjective(SubSeq(s, 1, n))
<1>1. /\ SubSeq(s, 1, n) \in Seq(Nat) /\ DOMAIN SubSeq(s, 1, n) = 1..n
      /\ \A i \in 1..n : SubSeq(s, 1, n)[i] = s[i]
      /\ 1..n \subseteq DOMAIN s
  OBVIOUS
<1>. QED  BY <1>1 DEF Range, IsInjective

(* What a transport holds after it has taken one write more. *)
LEMMA ConcatRange ==
  ASSUME NEW s \in Seq(Nat), NEW r \in Seq(Nat)
  PROVE  /\ s \o r \in Seq(Nat) /\ Range(s \o r) = Range(s) \cup Range(r)
         /\ Len(s \o r) = Len(s) + Len(r)
         /\ \A i \in 1..Len(s) : (s \o r)[i] = s[i]
         /\ \A i \in 1..Len(r) : (s \o r)[Len(s) + i] = r[i]
         /\ \A i \in DOMAIN (s \o r) \ DOMAIN s : i - Len(s) \in DOMAIN r
                                                  /\ (s \o r)[i] = r[i - Len(s)]
<1>1. /\ s \o r \in Seq(Nat) /\ Len(s \o r) = Len(s) + Len(r)
      /\ Len(s) \in Nat /\ Len(r) \in Nat
      /\ DOMAIN s = 1..Len(s) /\ DOMAIN r = 1..Len(r) /\ DOMAIN (s \o r) = 1..(Len(s) + Len(r))
  OBVIOUS
<1>2. \A i \in 1..Len(s) : (s \o r)[i] = s[i]
  OBVIOUS
<1>3. \A i \in 1..Len(r) : (s \o r)[Len(s) + i] = r[i]
  OBVIOUS
<1>4. ASSUME NEW i \in DOMAIN (s \o r) \ DOMAIN s
      PROVE  i - Len(s) \in DOMAIN r /\ (s \o r)[i] = r[i - Len(s)]
  BY <1>1
<1> DEFINE q == s \o r
           l == Len(s)
           m == Len(r)
<1> HIDE DEF q, l, m
<1>5. /\ l \in Nat /\ m \in Nat /\ DOMAIN s = 1..l /\ DOMAIN r = 1..m /\ DOMAIN q = 1..(l + m)
      /\ \A i \in 1..l : q[i] = s[i]
      /\ \A i \in 1..m : q[l + i] = r[i]
      /\ \A i \in DOMAIN q \ DOMAIN s : i - l \in DOMAIN r /\ q[i] = r[i - l]
  BY <1>1, <1>2, <1>3, <1>4 DEF q, l, m
<1>6. Range(q) \subseteq Range(s) \cup Range(r)
  BY <1>5 DEF Range
<1>7. Range(s) \subseteq Range(q)
  BY <1>5 DEF Range
<1>8. Range(r) \subseteq Range(q)
  <2>1. \A i \in 1..m : l + i \in DOMAIN q
    BY <1>5
  <2>. QED  BY <1>5, <2>1 DEF Range
<1>9. Range(s \o r) = Range(s) \cup Range(r)
  BY <1>6, <1>7, <1>8 DEF q
<1>. QED  BY <1>1, <1>2, <1>3, <1>4, <1>9

(* What is not there is there no times. *)
LEMMA CountTypes ==
  ASSUME NEW s \in Seq(Nat), NEW e
  PROVE  Count(s, e) \in Nat /\ (e \notin Range(s) => Count(s, e) = 0)
<1>1. IsFiniteSet(DOMAIN s)
  <2>1. DOMAIN s = 1..Len(s) /\ Len(s) \in Nat
    OBVIOUS
  <2>. QED  BY <2>1, FS_Interval
<1>2. Count(s, e) \in Nat
  BY <1>1, FS_Subset, FS_CardinalityType DEF Count
<1>3. ASSUME e \notin Range(s) PROVE Count(s, e) = 0
  <2>1. {i \in DOMAIN s : s[i] = e} = {}
    BY <1>3 DEF Range
  <2>. QED  BY <2>1, FS_EmptySet DEF Count
<1>. QED  BY <1>2, <1>3

(* A sequence without repetitions adds one at most. *)
LEMMA CountConcat ==
  ASSUME NEW s \in Seq(Nat), NEW r \in Seq(Nat), IsInjective(r), NEW e
  PROVE  /\ e \notin Range(r) => Count(s \o r, e) = Count(s, e)
         /\ Count(s \o r, e) <= Count(s, e) + 1
<1> DEFINE q == s \o r
           A == {i \in DOMAIN s : s[i] = e}
           B == {i \in DOMAIN q : q[i] = e}
<1>1. /\ DOMAIN s \subseteq DOMAIN q /\ \A i \in DOMAIN s : q[i] = s[i]
      /\ \A i \in DOMAIN q \ DOMAIN s : i - Len(s) \in DOMAIN r /\ q[i] = r[i - Len(s)]
      /\ Len(s) \in Nat /\ DOMAIN q \subseteq Nat
  <2>1. DOMAIN s = 1..Len(s) /\ DOMAIN q = 1..(Len(s) + Len(r)) /\ Len(s) \in Nat /\ Len(r) \in Nat
    OBVIOUS
  <2>. QED  BY <2>1, ConcatRange
<1> HIDE DEF q
<1>2. IsFiniteSet(A) /\ Cardinality(A) \in Nat
  <2>1. DOMAIN s = 1..Len(s) /\ Len(s) \in Nat
    OBVIOUS
  <2>2. IsFiniteSet(DOMAIN s)
    BY <2>1, FS_Interval
  <2>. QED  BY <2>2, FS_Subset, FS_CardinalityType
<1>3. CASE e \notin Range(r)
  <2>1. A = B
    BY <1>1, <1>3 DEF Range
  <2>2. Count(s, e) = Cardinality(A) /\ Count(s \o r, e) = Cardinality(B)
    BY DEF Count, q
  <2> HIDE DEF A, B
  <2>. QED  BY <1>2, <1>3, <2>1, <2>2
<1>4. CASE e \in Range(r)
  <2>1. PICK j \in DOMAIN r : r[j] = e
    BY <1>4 DEF Range
  <2>2. \A i \in DOMAIN q \ DOMAIN s : q[i] = e => i - Len(s) = j
    BY <1>1, <2>1 DEF IsInjective
  <2>3. j \in Nat
    <3>1. DOMAIN r = 1..Len(r)
      OBVIOUS
    <3>. QED  BY <3>1
  <2>4. B \subseteq A \cup {Len(s) + j}
    BY <1>1, <2>2, <2>3
  <2>5. IsFiniteSet(A \cup {Len(s) + j}) /\ Cardinality(A \cup {Len(s) + j}) <= Cardinality(A) + 1
    <3>1. Cardinality(A \cup {Len(s) + j})
            = IF Len(s) + j \in A THEN Cardinality(A) ELSE Cardinality(A) + 1
      BY <1>2, FS_AddElement
    <3>2. IsFiniteSet(A \cup {Len(s) + j})
      BY <1>2, FS_AddElement
    <3> HIDE DEF A
    <3>. QED  BY <1>2, <3>1, <3>2
  <2>6. Cardinality(B) <= Cardinality(A \cup {Len(s) + j}) /\ Cardinality(B) \in Nat
        /\ Cardinality(A \cup {Len(s) + j}) \in Nat
    BY <2>4, <2>5, FS_Subset, FS_CardinalityType
  <2>7. Cardinality(B) <= Cardinality(A) + 1
    <3> HIDE DEF A, B
    <3>. QED  BY <1>2, <2>5, <2>6
  <2>8. Count(s, e) = Cardinality(A) /\ Count(s \o r, e) = Cardinality(B)
    BY DEF Count, q
  <2>. QED  BY <1>4, <2>7, <2>8
<1>. QED  BY <1>3, <1>4

----------------------------------------------------------------------------
(* The loop that encodes a batch: payloads after i turns, from those before. *)
EncodeTurn(s, bad, g, i) ==
  IF i = 0 THEN <<>> ELSE IF s[i] \in bad THEN g[i - 1] ELSE Append(g[i - 1], s[i])

IsEncodeLoop(s, bad, n, g) == g = [i \in 0..n |-> EncodeTurn(s, bad, g, i)]

(* Encoded is what some run of the loop ends with. *)
LEMMA EncodedIsChoice ==
  ASSUME NEW w, NEW bad
  PROVE  Encoded(w, bad)
           = (CHOOSE g : IsEncodeLoop(batch[w], bad, Len(batch[w]), g))[Len(batch[w])]
BY DEF Encoded, IsEncodeLoop, EncodeTurn

(* The loop runs for any number of turns ... *)
LEMMA EncodeLoopExists ==
  ASSUME NEW s, NEW bad, NEW n \in Nat
  PROVE  \E g : IsEncodeLoop(s, bad, n, g)
<1> DEFINE Bad == {m \in Nat : ~ \E g : IsEncodeLoop(s, bad, m, g)}
<1>1. \E g : IsEncodeLoop(s, bad, 0, g)
  <2>1. IsEncodeLoop(s, bad, 0, [i \in 0..0 |-> <<>>])
    <3>1. \A i \in 0..0 : i = 0
      OBVIOUS
    <3>2. \A i \in 0..0 : \A g : EncodeTurn(s, bad, g, i) = <<>>
      BY <3>1 DEF EncodeTurn
    <3>. QED  BY <3>2 DEF IsEncodeLoop
  <2>. QED  BY <2>1
<1>2. ASSUME NEW m \in Nat, NEW g, IsEncodeLoop(s, bad, m, g)
      PROVE  \E h : IsEncodeLoop(s, bad, m + 1, h)
  <2> DEFINE h == [i \in 0..(m + 1) |-> EncodeTurn(s, bad, g, i)]
  <2>1. \A i \in 0..m : i \in 0..(m + 1) /\ h[i] = g[i]
    BY <1>2 DEF IsEncodeLoop
  <2>2. ASSUME NEW i \in 0..(m + 1) PROVE EncodeTurn(s, bad, h, i) = EncodeTurn(s, bad, g, i)
    <3>1. CASE i = 0
      BY <3>1 DEF EncodeTurn
    <3>2. CASE i # 0
      <4>1. i - 1 \in 0..m
        BY <3>2
      <4>2. h[i - 1] = g[i - 1]
        BY <2>1, <4>1
      <4> HIDE DEF h
      <4>. QED  BY <4>2 DEF EncodeTurn
    <3>. QED  BY <3>1, <3>2
  <2>3. IsEncodeLoop(s, bad, m + 1, h)
    BY <2>2 DEF IsEncodeLoop
  <2>. QED  BY <2>3
<1>3. Bad = {}
  <2> SUFFICES ASSUME Bad # {} PROVE FALSE
    OBVIOUS
  <2>1. PICK m \in Bad : \A k \in Bad : m <= k
    BY LeastNumber
  <2>2. m \in Nat /\ m # 0
    BY <1>1
  <2>3. m - 1 \in Nat /\ m - 1 \notin Bad
    <3> HIDE DEF Bad
    <3>. QED  BY <2>1, <2>2
  <2>4. \E h : IsEncodeLoop(s, bad, (m - 1) + 1, h)
    BY <1>2, <2>3
  <2>5. (m - 1) + 1 = m
    BY <2>2
  <2>. QED  BY <2>4, <2>5
<1>. QED  BY <1>3

(* ... and its payloads are the events that could be encoded, each once. *)
LEMMA EncodeLoopKeeps ==
  ASSUME NEW s \in Seq(Nat), NEW bad, NEW g, IsEncodeLoop(s, bad, Len(s), g)
  PROVE  \A n \in 0..Len(s) :
           /\ g[n] \in Seq(Nat)
           /\ Range(g[n]) = {s[i] : i \in 1..n} \ bad
           /\ IsInjective(s) => IsInjective(g[n])
<1> DEFINE L == Len(s)
           P(n) == /\ g[n] \in Seq(Nat)
                   /\ Range(g[n]) = {s[i] : i \in 1..n} \ bad
                   /\ IsInjective(s) => IsInjective(g[n])
           Bad == {n \in 0..L : ~P(n)}
<1>1. L \in Nat /\ DOMAIN s = 1..L /\ \A i \in 1..L : s[i] \in Nat
  OBVIOUS
<1>2. \A n \in 0..L : g[n] = EncodeTurn(s, bad, g, n)
  BY DEF IsEncodeLoop
<1> HIDE DEF L
<1>3. P(0)
  <2>1. g[0] = <<>>
    BY <1>1, <1>2 DEF EncodeTurn
  <2>2. DOMAIN g[0] = {}
    BY <2>1
  <2>3. Range(g[0]) = {} /\ {s[i] : i \in 1..0} = {}
    BY <2>2 DEF Range
  <2>. QED  BY <2>1, <2>2, <2>3 DEF IsInjective
<1>4. ASSUME NEW n \in Nat, n + 1 \in 0..L, P(n) PROVE P(n + 1)
  <2> DEFINE q == g[n]
             p == g[n + 1]
             e == s[n + 1]
             S == {s[i] : i \in 1..n}
             T == {s[i] : i \in 1..(n + 1)}
  <2>1. p = IF e \in bad THEN q ELSE Append(q, e)
    <3>1. (n + 1) - 1 = n /\ n + 1 # 0
      OBVIOUS
    <3>. QED  BY <1>2, <1>4, <3>1 DEF EncodeTurn
  <2>2. /\ q \in Seq(Nat) /\ Range(q) = S \ bad /\ (IsInjective(s) => IsInjective(q))
        /\ e \in Nat
    BY <1>1, <1>4
  <2>3. T = S \cup {e}
    <3>1. 1..(n + 1) = (1..n) \cup {n + 1}
      OBVIOUS
    <3>. QED  BY <3>1
  <2>4. IsInjective(s) => e \notin S
    <3> SUFFICES ASSUME IsInjective(s), NEW i \in 1..n, s[i] = s[n + 1] PROVE FALSE
      OBVIOUS
    <3>1. i \in 1..L /\ n + 1 \in 1..L /\ i # n + 1
      BY <1>1, <1>4
    <3>. QED  BY <1>1, <3>1 DEF IsInjective
  <2> HIDE DEF q, p, e, S, T
  <2>5. CASE e \in bad
    <3>1. p = q
      BY <2>1, <2>5
    <3>2. T \ bad = S \ bad
      BY <2>3, <2>5
    <3>3. p \in Seq(Nat) /\ Range(p) = T \ bad /\ (IsInjective(s) => IsInjective(p))
      BY <2>2, <3>1, <3>2
    <3>. QED  BY <3>3 DEF p, T
  <2>6. CASE e \notin bad
    <3>1. p = Append(q, e)
      BY <2>1, <2>6
    <3>2. /\ p \in Seq(Nat)
          /\ DOMAIN q = 1..Len(q) /\ Len(q) \in Nat /\ DOMAIN p = 1..(Len(q) + 1)
          /\ \A i \in 1..Len(q) : p[i] = q[i]
          /\ p[Len(q) + 1] = e
      BY <2>2, <3>1
    <3>3. Range(p) = Range(q) \cup {e}
      <4>1. Range(p) \subseteq Range(q) \cup {e}
        BY <3>2 DEF Range
      <4>2. Range(q) \subseteq Range(p)
        BY <3>2 DEF Range
      <4>3. e \in Range(p)
        <5>1. Len(q) + 1 \in DOMAIN p
          BY <3>2
        <5>. QED  BY <3>2, <5>1 DEF Range
      <4>. QED  BY <4>1, <4>2, <4>3
    <3>4. Range(p) = T \ bad
      BY <2>2, <2>3, <2>6, <3>3
    <3>5. ASSUME IsInjective(s) PROVE IsInjective(p)
      <4>1. IsInjective(q) /\ e \notin Range(q)
        BY <2>2, <2>4, <3>5
      <4>2. \A i \in DOMAIN q : p[i] # e
        BY <3>2, <4>1 DEF Range
      <4>. QED  BY <3>2, <4>1, <4>2 DEF IsInjective
    <3>. QED  BY <3>2, <3>4, <3>5 DEF p, T
  <2>. QED  BY <2>5, <2>6
<1>5. Bad = {}
  <2> SUFFICES ASSUME Bad # {} PROVE FALSE
    OBVIOUS
  <2>0. Bad \subseteq Nat /\ Bad \subseteq 0..L
    OBVIOUS
  <2>1. PICK n \in Bad : \A k \in Bad : n <= k
    BY <2>0, LeastNumber
  <2>2. n \in Nat /\ n # 0 /\ n \in 0..L
    BY <1>3, <2>0
  <2>3. n - 1 \in Nat /\ n - 1 \in 0..L /\ (n - 1) + 1 = n /\ n - 1 \notin Bad
    <3> HIDE DEF Bad
    <3>. QED  BY <1>1, <2>1, <2>2
  <2>4. P(n - 1) /\ ~P(n)
    BY <2>3
  <2> HIDE DEF P, Bad
  <2>5. P((n - 1) + 1)
    BY <1>4, <2>2, <2>3, <2>4
  <2>. QED  BY <2>3, <2>4, <2>5
<1>6. \A n \in 0..L : P(n)
  BY <1>5
<1>. QED  BY <1>6 DEF L

(* Encoded leaves out what cannot be encoded, and nothing else. *)
LEMMA EncodedKeeps ==
  ASSUME NEW w, batch[w] \in Seq(Nat), NEW bad
  PROVE  /\ Encoded(w, bad) \in Seq(Nat)
         /\ Range(Encoded(w, bad)) = Range(batch[w]) \ bad
         /\ IsInjective(batch[w]) => IsInjective(Encoded(w, bad))
<1> DEFINE s == batch[w]
           g == CHOOSE f : IsEncodeLoop(s, bad, Len(s), f)
<1>1. Len(s) \in Nat /\ Len(s) \in 0..Len(s) /\ DOMAIN s = 1..Len(s)
  OBVIOUS
<1>2. IsEncodeLoop(s, bad, Len(s), g)
  BY <1>1, EncodeLoopExists
<1>3. Encoded(w, bad) = g[Len(s)]
  BY EncodedIsChoice
<1>4. Range(s) = {s[i] : i \in 1..Len(s)}
  BY <1>1 DEF Range
<1>5. s \in Seq(Nat)
  OBVIOUS
<1> HIDE DEF g, s
<1>6. /\ g[Len(s)] \in Seq(Nat) /\ Range(g[Len(s)]) = {s[i] : i \in 1..Len(s)} \ bad
      /\ IsInjective(s) => IsInjective(g[Len(s)])
  BY <1>1, <1>2, <1>5, EncodeLoopKeeps
<1>7. /\ Encoded(w, bad) \in Seq(Nat) /\ Range(Encoded(w, bad)) = Range(s) \ bad
      /\ IsInjective(s) => IsInjective(Encoded(w, bad))
  BY <1>3, <1>4, <1>6
<1>. QED  BY <1>7 DEF s

----------------------------------------------------------------------------
(* The steps of WriteBatch, as far as the events are concerned             *)

(* A step of w changes nothing that is another worker's. *)
OnlyMoves(w) ==
  /\ targets' = targets
  /\ \A v \in Workers \ {w} :
       /\ pc'[v] = pc[v] /\ batch'[v] = batch[v] /\ at'[v] = at[v]
       /\ frames'[v] = frames[v] /\ failed'[v] = failed[v]

TriedGrows == \A t \in Backends : tried[t] \subseteq tried'[t]

(* The batch is encoded into writes; what cannot be encoded is an error. *)
Prepares(w) ==
  /\ OnlyMoves(w) /\ TriedGrows
  /\ UNCHANGED <<mu, calls, taken, resent>>
  /\ pc[w] = "build" /\ batch'[w] = batch[w] /\ at'[w] = at[w]
  /\ \/ pc'[w] = "lock" /\ targets[at[w]] # "serial" /\ frames'[w] # <<>>
     \/ pc'[w] = "record" /\ targets[at[w]] = "serial"
  /\ Distinct(frames'[w]) /\ EventsOf(frames'[w]) \subseteq Mine(w)
  /\ Mine(w) \subseteq tried'[at[w]] \cup EventsOf(frames'[w])
  /\ ~failed'[w] => ~failed[w] /\ Mine(w) \subseteq EventsOf(frames'[w])

(* The backend is done with the batch. *)
Advances(w) ==
  /\ OnlyMoves(w) /\ TriedGrows
  /\ UNCHANGED <<calls, taken, resent>>
  /\ \A t \in Backends : t # at[w] => mu'[t] = mu[t]
  /\ mu'[at[w]] = mu[at[w]] \/ pc[w] = "unlock"
  /\ pc[w] \in {"build", "unlock", "record"} /\ frames[w] = <<>>
  /\ batch'[w] = batch[w] /\ frames'[w] = frames[w]
  /\ \/ at[w] = Len(targets) /\ at'[w] = at[w] /\ pc'[w] = "return"
     \/ at[w] # Len(targets) /\ at'[w] = at[w] + 1 /\ pc'[w] = "build"
  /\ pc[w] = "build" => Mine(w) \subseteq tried'[at[w]] /\ failed'[w]
  /\ ~failed'[w] => ~failed[w]

(* The backend takes evs of the first write, which is then kept or dropped. *)
Handles(w, evs) ==
  /\ OnlyMoves(w) /\ TriedGrows
  /\ UNCHANGED <<mu, calls>>
  /\ frames[w] # <<>> /\ batch'[w] = batch[w] /\ at'[w] = at[w]
  /\ evs \in Seq(Nat) /\ IsInjective(evs) /\ Range(evs) \subseteq Range(Head(frames[w]))
  /\ taken'[at[w]] = taken[at[w]] \o evs
  /\ \A t \in Backends : (t # at[w] => taken'[t] = taken[t]) /\ resent[t] \subseteq resent'[t]
  /\ pc[w] \notin Retrying => Range(Head(frames[w])) \subseteq tried'[at[w]]
  /\ ~failed'[w] => ~failed[w]
  /\ \/ pc[w] = "send" /\ pc'[w] = "reconnect" /\ frames'[w] = frames[w]
     \/ /\ pc[w] = "reconnect" /\ pc'[w] = "resend" /\ frames'[w] = frames[w] /\ evs = <<>>
        /\ Range(Head(frames[w])) \subseteq resent'[at[w]]
     \/ /\ \/ pc[w] \in {"send", "resend"} \/ (pc[w] = "reconnect" /\ evs = <<>>)
        /\ pc'[w] = IF Tail(frames[w]) = <<>> THEN "unlock" ELSE "send"
        /\ frames'[w] = Tail(frames[w])
        /\ ~failed'[w] => Range(Head(frames[w])) \subseteq Range(evs)
     \/ /\ pc[w] = "record" /\ pc'[w] = "record" /\ frames'[w] = Tail(frames[w])
        /\ ~failed'[w] => Range(Head(frames[w])) \subseteq Range(evs)

(* Bringing a batch is nobody else's business. *)
LEMMA CallIsLocal ==
  ASSUME WriterTypes, NEW w \in Workers, Call(w)
  PROVE  OnlyMoves(w) /\ WriterTypes'
<1>1. PICK n \in 1..MaxBatch :
        calls' = calls + n /\ batch' = [batch EXCEPT ![w] = [i \in 1..n |-> calls + i]]
  BY DEF Call
<1>2. n \in Nat /\ [i \in 1..n |-> calls + i] \in Seq(Nat)
  <2>1. n \in Nat /\ calls \in Nat
    BY WritersAssumption DEF WriterTypes
  <2>. QED  BY <2>1
<1>3. 1 \in Backends
  BY DEF WriterTypes, Backends
<1>4. WriterTypes'
  BY <1>1, <1>2, <1>3 DEF Call, WriterTypes, Backends, To, Pc
<1>5. OnlyMoves(w)
  BY <1>1 DEF Call, WriterTypes, OnlyMoves, To
<1>. QED  BY <1>4, <1>5

(* The steps that only move the control keep the types. *)
LEMMA PlainStepTypes ==
  ASSUME WriterTypes, NEW w \in Workers, Lock(w) \/ Return(w)
  PROVE  OnlyMoves(w) /\ WriterTypes'
<1>0. 1 \in Backends
  BY DEF WriterTypes, Backends
<1>1. CASE Lock(w)
  BY <1>1 DEF Lock, WriterTypes, OnlyMoves, Backends, To, Pc, history
<1>2. CASE Return(w)
  BY <1>0, <1>2 DEF Return, WriterTypes, OnlyMoves, Backends, To, Pc, history
<1>. QED  BY <1>1, <1>2

(* GELF and syslog prepare what they could encode. *)
LEMMA BuildPrepares ==
  ASSUME WriterTypes, BatchesApart, NEW w \in Workers, Build(w)
  PROVE  Prepares(w) /\ WriterTypes'
<1> DEFINE t == at[w]
           s == batch[w]
<1>1. /\ s \in Seq(Nat) /\ IsInjective(s) /\ t \in Backends /\ Mine(w) = Range(s)
  BY DEF WriterTypes, BatchesApart, Mine
<1>2. PICK bad \in SUBSET Range(s) :
        LET good == Encoded(w, bad) IN
        /\ good # <<>>
        /\ tried' = [tried EXCEPT ![t] = @ \cup bad]
        /\ failed' = [failed EXCEPT ![w] = @ \/ bad # {}]
        /\ frames' = [frames EXCEPT ![w] =
             IF Protocol(w) = "tcp" THEN <<good>> ELSE [i \in 1..Len(good) |-> <<good[i]>>]]
  BY DEF Build, Tried
<1> DEFINE good == Encoded(w, bad)
           each == [i \in 1..Len(good) |-> <<good[i]>>]
           fs   == IF Protocol(w) = "tcp" THEN <<good>> ELSE each
<1>3. good \in Seq(Nat) /\ Range(good) = Range(s) \ bad /\ IsInjective(good)
  BY <1>1, EncodedKeeps
<1>4. good # <<>> /\ frames' = [frames EXCEPT ![w] = fs]
  BY <1>2
<1>5. fs \in Seq(Seq(Nat)) /\ fs # <<>> /\ Distinct(fs) /\ EventsOf(fs) = Range(good)
  <2> HIDE DEF good
  <2>1. /\ <<good>> \in Seq(Seq(Nat)) /\ <<good>> # <<>> /\ Distinct(<<good>>)
        /\ EventsOf(<<good>>) = Range(good)
    BY <1>3, OneFrame
  <2>2. /\ each \in Seq(Seq(Nat)) /\ each # <<>> /\ Distinct(each) /\ EventsOf(each) = Range(good)
    BY <1>3, <1>4, FrameEach
  <2> HIDE DEF each
  <2>. QED  BY <2>1, <2>2
<1> HIDE DEF fs
<1>6. /\ UNCHANGED <<targets, mu, batch, at, calls, taken, resent>>
      /\ pc[w] = "build" /\ pc' = [pc EXCEPT ![w] = "lock"] /\ targets[t] \in {"tcp", "udp"}
  BY DEF Build, To, Protocol
<1>7. Range(s) \subseteq Nat
  BY <1>1 DEF Range
<1>8. tried' = [tried EXCEPT ![t] = @ \cup bad] /\ failed' = [failed EXCEPT ![w] = @ \/ bad # {}]
  BY <1>2
<1>9. WriterTypes'
  <2>1. tried' \in [Backends -> SUBSET Nat] /\ failed' \in [Workers -> BOOLEAN]
    BY <1>1, <1>7, <1>8 DEF WriterTypes
  <2>2. frames' \in [Workers -> Seq(Seq(Nat))] /\ pc' \in [Workers -> Pc]
    BY <1>4, <1>5, <1>6 DEF WriterTypes, Pc
  <2>. QED  BY <1>6, <2>1, <2>2 DEF WriterTypes, Backends
<1>10. OnlyMoves(w) /\ TriedGrows
  BY <1>1, <1>4, <1>6, <1>8 DEF WriterTypes, OnlyMoves, TriedGrows
<1>11. /\ frames'[w] = fs /\ tried'[t] = tried[t] \cup bad /\ pc'[w] = "lock"
       /\ failed'[w] = (failed[w] \/ bad # {})
  BY <1>1, <1>4, <1>6, <1>8 DEF WriterTypes
<1>12. /\ Mine(w) \subseteq tried'[t] \cup EventsOf(fs) /\ EventsOf(fs) \subseteq Mine(w)
       /\ ~failed'[w] => ~failed[w] /\ Mine(w) \subseteq EventsOf(fs)
  BY <1>1, <1>3, <1>5, <1>11
<1>13. targets[at[w]] # "serial" /\ at'[w] = at[w] /\ batch'[w] = batch[w]
  BY <1>6
<1>. QED  BY <1>5, <1>6, <1>9, <1>10, <1>11, <1>12, <1>13 DEF Prepares

(* Beats and the serial writers prepare the whole batch. *)
LEMMA WindowPrepares ==
  ASSUME WriterTypes, BatchesApart, NEW w \in Workers, BuildWindow(w) \/ BuildSerial(w)
  PROVE  Prepares(w) /\ WriterTypes'
<1> DEFINE s == batch[w]
           each == [i \in 1..Len(s) |-> <<s[i]>>]
<1>1. s \in Seq(Nat) /\ IsInjective(s) /\ at[w] \in Backends /\ Mine(w) = Range(s)
  BY DEF WriterTypes, BatchesApart, Mine
<1>2. /\ UNCHANGED <<targets, mu, batch, at, failed, calls, taken, tried, resent>>
      /\ pc[w] = "build"
  BY DEF BuildWindow, BuildSerial, history
<1>3. \E fs : /\ frames' = [frames EXCEPT ![w] = fs]
              /\ \/ /\ pc' = [pc EXCEPT ![w] = "lock"] /\ targets[at[w]] # "serial"
                    /\ fs = <<s>>
                 \/ /\ pc' = [pc EXCEPT ![w] = "record"] /\ targets[at[w]] = "serial"
                    /\ fs = each
  BY DEF BuildWindow, BuildSerial, To, Protocol
<1>4. PICK fs : /\ frames' = [frames EXCEPT ![w] = fs]
                /\ \/ /\ pc' = [pc EXCEPT ![w] = "lock"] /\ targets[at[w]] # "serial"
                      /\ fs = <<s>>
                   \/ /\ pc' = [pc EXCEPT ![w] = "record"] /\ targets[at[w]] = "serial"
                      /\ fs = each
  BY <1>3
<1>5. /\ <<s>> \in Seq(Seq(Nat)) /\ <<s>> # <<>> /\ Distinct(<<s>>) /\ EventsOf(<<s>>) = Range(s)
  <2> HIDE DEF s
  <2>. QED  BY <1>1, OneFrame
<1>6. each \in Seq(Seq(Nat)) /\ Distinct(each) /\ EventsOf(each) = Range(s)
  <2> HIDE DEF s
  <2>. QED  BY <1>1, FrameEach
<1> HIDE DEF each, s
<1>7. fs \in Seq(Seq(Nat)) /\ Distinct(fs) /\ EventsOf(fs) = Range(s)
  BY <1>4, <1>5, <1>6
<1>8. /\ frames' = [frames EXCEPT ![w] = fs]
      /\ \/ pc' = [pc EXCEPT ![w] = "lock"] /\ targets[at[w]] # "serial" /\ fs # <<>>
         \/ pc' = [pc EXCEPT ![w] = "record"] /\ targets[at[w]] = "serial"
  BY <1>4, <1>5
<1>9. WriterTypes'
  BY <1>2, <1>7, <1>8 DEF WriterTypes, Backends, Pc
<1>10. OnlyMoves(w) /\ TriedGrows
  BY <1>2, <1>8 DEF WriterTypes, OnlyMoves, TriedGrows
<1>11. /\ frames'[w] = fs
       /\ \/ pc'[w] = "lock" /\ targets[at[w]] # "serial" /\ fs # <<>>
          \/ pc'[w] = "record" /\ targets[at[w]] = "serial"
  BY <1>8 DEF WriterTypes
<1>. QED  BY <1>1, <1>2, <1>7, <1>9, <1>10, <1>11 DEF Prepares

(* The steps that leave a backend. *)
LEMMA DoneAdvances ==
  ASSUME WriterTypes, NEW w \in Workers, FramesOf(w),
         BuildNothing(w) \/ Unlock(w) \/ RecordsEnd(w)
  PROVE  Advances(w) /\ WriterTypes'
<1>1. /\ UNCHANGED <<targets, batch, frames, calls, taken, resent>>
      /\ frames[w] = <<>> /\ pc[w] \in {"build", "unlock", "record"}
      /\ at[w] \in Backends
  BY DEF BuildNothing, Unlock, RecordsEnd, history, FramesOf, WriterTypes
<1>2. \/ mu' = mu
      \/ mu' = [mu EXCEPT ![at[w]] = NoOne] /\ pc[w] = "unlock"
  BY DEF BuildNothing, Unlock, RecordsEnd
<1>3. \/ tried' = tried /\ failed' = failed /\ pc[w] # "build"
      \/ /\ tried' = [tried EXCEPT ![at[w]] = @ \cup Mine(w)]
         /\ failed' = [failed EXCEPT ![w] = TRUE]
  BY DEF BuildNothing, Unlock, RecordsEnd, history, Tried, Mine
<1>4. \/ /\ at[w] = Len(targets) /\ at' = at /\ pc' = [pc EXCEPT ![w] = "return"]
      \/ /\ at[w] # Len(targets) /\ at' = [at EXCEPT ![w] = @ + 1]
         /\ pc' = [pc EXCEPT ![w] = "build"]
  BY DEF BuildNothing, Unlock, RecordsEnd, NextTarget, To
<1>5. at[w] # Len(targets) => at[w] + 1 \in Backends
  <2>1. targets \in Seq(Protocols)
    BY DEF WriterTypes
  <2>2. Len(targets) \in Nat /\ Backends = 1..Len(targets)
    BY <2>1 DEF Backends
  <2>. QED  BY <1>1, <2>2
<1>6. Mine(w) \subseteq Nat
  BY DEF WriterTypes, Mine, Range
<1>13. tried' \in [Backends -> SUBSET Nat] /\ TriedGrows
  <2>1. tried \in [Backends -> SUBSET Nat]
    BY DEF WriterTypes
  <2>2. CASE tried' = tried
    BY <2>1, <2>2 DEF TriedGrows
  <2>3. CASE tried' = [tried EXCEPT ![at[w]] = @ \cup Mine(w)]
    <3> DEFINE M == Mine(w)
    <3> HIDE DEF M
    <3>1. tried' = [tried EXCEPT ![at[w]] = @ \cup M] /\ M \subseteq Nat
      BY <1>6, <2>3 DEF M
    <3>. QED  BY <1>1, <2>1, <3>1 DEF TriedGrows
  <2>. QED  BY <1>3, <2>2, <2>3
<1>7. WriterTypes'
  <2>1. at' \in [Workers -> Backends] /\ pc' \in [Workers -> Pc]
    BY <1>4, <1>5 DEF WriterTypes, Pc
  <2>2. mu' \in [Backends -> Workers \cup {NoOne}]
    BY <1>1, <1>2 DEF WriterTypes
  <2>3. failed' \in [Workers -> BOOLEAN]
    BY <1>3 DEF WriterTypes
  <2>. QED  BY <1>1, <1>13, <2>1, <2>2, <2>3 DEF WriterTypes, Backends
<1>8. OnlyMoves(w)
  BY <1>1, <1>3, <1>4 DEF WriterTypes, OnlyMoves
<1>10. /\ \A t \in Backends : t # at[w] => mu'[t] = mu[t]
       /\ mu'[at[w]] = mu[at[w]] \/ pc[w] = "unlock"
  BY <1>1, <1>2 DEF WriterTypes
<1>11. /\ pc[w] = "build" => Mine(w) \subseteq tried'[at[w]] /\ failed'[w]
       /\ ~failed'[w] => ~failed[w]
  BY <1>1, <1>3 DEF WriterTypes
<1>12. \/ at[w] = Len(targets) /\ at'[w] = at[w] /\ pc'[w] = "return"
       \/ at[w] # Len(targets) /\ at'[w] = at[w] + 1 /\ pc'[w] = "build"
  BY <1>4 DEF WriterTypes
<1>. QED  BY <1>1, <1>7, <1>8, <1>10, <1>11, <1>12, <1>13 DEF Advances

(* The first of the writes to be made. *)
LEMMA FirstWrite ==
  ASSUME WriterTypes, NEW w \in Workers, FramesOf(w), frames[w] # <<>>
  PROVE  LET h == Head(frames[w]) IN
         /\ h \in Seq(Nat) /\ IsInjective(h) /\ Range(h) \subseteq Nat
         /\ Tail(frames[w]) \in Seq(Seq(Nat)) /\ Distinct(Tail(frames[w]))
         /\ Pending(w) = Range(h) \cup EventsOf(Tail(frames[w]))
         /\ Range(h) \cap EventsOf(Tail(frames[w])) = {}
         /\ Len(frames[w]) = 1 <=> Tail(frames[w]) = <<>>
<1>1. frames[w] \in Seq(Seq(Nat)) /\ Distinct(frames[w])
  BY DEF WriterTypes, FramesOf
<1>2. Pending(w) = EventsOf(frames[w])
  BY DEF Pending
<1> DEFINE h == Head(frames[w])
<1>3. /\ h \in Seq(Nat) /\ IsInjective(h)
      /\ Tail(frames[w]) \in Seq(Seq(Nat)) /\ Distinct(Tail(frames[w]))
      /\ Pending(w) = Range(h) \cup EventsOf(Tail(frames[w]))
      /\ Range(h) \cap EventsOf(Tail(frames[w])) = {}
      /\ Len(frames[w]) = 1 <=> Tail(frames[w]) = <<>>
  BY <1>1, <1>2, HeadAndTail
<1>4. Range(h) \subseteq Nat
  <2>1. \A s \in Seq(Nat) : Range(s) \subseteq Nat
    BY DEF Range
  <2>. QED  BY <1>3, <2>1
<1>. QED  BY <1>3, <1>4

(* A Take changes one backend, at its end. *)
LEMMA TakeTypes ==
  ASSUME WriterTypes, NEW w \in Workers, NEW evs \in Seq(Nat),
         taken' = [taken EXCEPT ![at[w]] = @ \o evs]
  PROVE  /\ taken' \in [Backends -> Seq(Nat)] /\ taken'[at[w]] = taken[at[w]] \o evs
         /\ \A t \in Backends : t # at[w] => taken'[t] = taken[t]
<1>1. taken \in [Backends -> Seq(Nat)] /\ at[w] \in Backends
  BY DEF WriterTypes
<1>2. taken[at[w]] \o evs \in Seq(Nat)
  BY <1>1
<1>. QED  BY <1>1, <1>2

(* A Tried adds to one backend. *)
LEMMA TriedTypes ==
  ASSUME WriterTypes, NEW w \in Workers, NEW evs \in SUBSET Nat,
         tried' = [tried EXCEPT ![at[w]] = @ \cup evs]
  PROVE  tried' \in [Backends -> SUBSET Nat] /\ TriedGrows /\ evs \subseteq tried'[at[w]]
<1>1. tried \in [Backends -> SUBSET Nat] /\ at[w] \in Backends
  BY DEF WriterTypes
<1>. QED  BY <1>1 DEF TriedGrows

(* Taking nothing is a way to take. *)
LEMMA NothingTaken ==
  ASSUME WriterTypes, NEW w \in Workers, taken' = taken
  PROVE  /\ <<>> \in Seq(Nat) /\ IsInjective(<<>>)
         /\ Range(<<>>) \subseteq Range(Head(frames[w]))
         /\ taken' \in [Backends -> Seq(Nat)] /\ taken'[at[w]] = taken[at[w]] \o <<>>
         /\ \A t \in Backends : t # at[w] => taken'[t] = taken[t]
<1>1. taken \in [Backends -> Seq(Nat)] /\ at[w] \in Backends /\ taken[at[w]] \in Seq(Nat)
  BY DEF WriterTypes
<1>2. \A s \in Seq(Nat) : s \o <<>> = s
  OBVIOUS
<1>3. <<>> \in Seq(Nat) /\ DOMAIN <<>> = {}
  OBVIOUS
<1>4. IsInjective(<<>>) /\ Range(<<>>) = {}
  BY <1>3 DEF IsInjective, Range
<1>. QED  BY <1>1, <1>2, <1>3, <1>4

(* NextFrame, and the local part of the steps that end with it. *)
LEMMA NextFrameMoves ==
  ASSUME WriterTypes, NEW w \in Workers, FramesOf(w), frames[w] # <<>>, NextFrame(w)
  PROVE  /\ frames' \in [Workers -> Seq(Seq(Nat))] /\ pc' \in [Workers -> Pc]
         /\ frames'[w] = Tail(frames[w])
         /\ pc'[w] = IF Tail(frames[w]) = <<>> THEN "unlock" ELSE "send"
         /\ \A v \in Workers \ {w} : pc'[v] = pc[v] /\ frames'[v] = frames[v]
<1>1. /\ Tail(frames[w]) \in Seq(Seq(Nat))
      /\ Len(frames[w]) = 1 <=> Tail(frames[w]) = <<>>
  BY FirstWrite
<1>2. /\ frames' = [frames EXCEPT ![w] = Tail(frames[w])]
      /\ pc' = [pc EXCEPT ![w] = IF Tail(frames[w]) = <<>> THEN "unlock" ELSE "send"]
  BY <1>1 DEF NextFrame, To
<1>. QED  BY <1>1, <1>2 DEF WriterTypes, Pc

(* A send that succeeds takes the first write whole. *)
LEMMA SendTakenHandles ==
  ASSUME WriterTypes, NEW w \in Workers, FramesOf(w), SendTaken(w)
  PROVE  Handles(w, Head(frames[w])) /\ WriterTypes'
<1> DEFINE h == Head(frames[w])
<1>1. /\ UNCHANGED <<targets, mu, batch, at, failed, calls, resent>> /\ NextFrame(w)
      /\ taken' = [taken EXCEPT ![at[w]] = @ \o h]
      /\ tried' = [tried EXCEPT ![at[w]] = @ \cup Range(h)]
      /\ pc[w] \in {"send", "resend"}
  BY DEF SendTaken, Take, Tried
<1>2. frames[w] # <<>>
  BY <1>1 DEF FramesOf
<1>3. h \in Seq(Nat) /\ IsInjective(h) /\ Range(h) \subseteq Nat
  BY <1>2, FirstWrite
<1>4. /\ taken' \in [Backends -> Seq(Nat)] /\ taken'[at[w]] = taken[at[w]] \o h
      /\ \A t \in Backends : t # at[w] => taken'[t] = taken[t]
  BY <1>1, <1>3, TakeTypes
<1>5. tried' \in [Backends -> SUBSET Nat] /\ TriedGrows /\ Range(h) \subseteq tried'[at[w]]
  BY <1>1, <1>3, TriedTypes
<1>6. /\ frames' \in [Workers -> Seq(Seq(Nat))] /\ pc' \in [Workers -> Pc]
      /\ frames'[w] = Tail(frames[w])
      /\ pc'[w] = IF Tail(frames[w]) = <<>> THEN "unlock" ELSE "send"
      /\ \A v \in Workers \ {w} : pc'[v] = pc[v] /\ frames'[v] = frames[v]
  BY <1>1, <1>2, NextFrameMoves
<1> HIDE DEF h
<1>7. WriterTypes'
  BY <1>1, <1>4, <1>5, <1>6 DEF WriterTypes, Backends
<1>8. OnlyMoves(w)
  BY <1>1, <1>6 DEF OnlyMoves
<1>9. Handles(w, h)
  BY <1>1, <1>2, <1>3, <1>4, <1>5, <1>6, <1>8 DEF Handles, Retrying, h
<1>. QED  BY <1>7, <1>9 DEF h

(* A send that fails takes a part of the first write. *)
LEMMA SendFailsHandles ==
  ASSUME WriterTypes, NEW w \in Workers, FramesOf(w), SendFails(w) \/ ResendFails(w)
  PROVE  (\E evs : Handles(w, evs)) /\ WriterTypes'
<1> DEFINE h == Head(frames[w])
<1>1. /\ UNCHANGED <<targets, mu, batch, at, calls, resent>> /\ pc[w] \in {"send", "resend"}
  BY DEF SendFails, ResendFails
<1>2. frames[w] # <<>>
  BY <1>1 DEF FramesOf
<1>3. h \in Seq(Nat) /\ IsInjective(h) /\ Range(h) \subseteq Nat
  BY <1>2, FirstWrite
<1>4. PICK n \in TakenByFailure(w, h) : taken' = [taken EXCEPT ![at[w]] = @ \o SubSeq(h, 1, n)]
  BY DEF SendFails, ResendFails, Take
<1> HIDE DEF h
<1>5. n \in 0..Len(h)
  <2>1. Len(h) \in Nat
    BY <1>3
  <2>. QED  BY <2>1 DEF TakenByFailure
<1> DEFINE evs == SubSeq(h, 1, n)
<1>6. evs \in Seq(Nat) /\ IsInjective(evs) /\ Range(evs) \subseteq Range(h)
  BY <1>3, <1>5, PrefixOfFrame
<1> HIDE DEF evs
<1>7. /\ taken' \in [Backends -> Seq(Nat)] /\ taken'[at[w]] = taken[at[w]] \o evs
      /\ \A t \in Backends : t # at[w] => taken'[t] = taken[t]
  <2>1. taken' = [taken EXCEPT ![at[w]] = @ \o evs]
    BY <1>4 DEF evs
  <2>. QED  BY <1>6, <2>1, TakeTypes
<1>8. CASE SendFails(w)
  <2>1. /\ tried' = [tried EXCEPT ![at[w]] = @ \cup Range(h)] /\ pc[w] = "send"
        /\ pc' = [pc EXCEPT ![w] = "reconnect"] /\ UNCHANGED <<frames, failed>>
    BY <1>8 DEF SendFails, Tried, To, h
  <2>2. tried' \in [Backends -> SUBSET Nat] /\ TriedGrows /\ Range(h) \subseteq tried'[at[w]]
    BY <1>3, <2>1, TriedTypes
  <2>3. /\ pc' \in [Workers -> Pc] /\ pc'[w] = "reconnect"
        /\ \A v \in Workers \ {w} : pc'[v] = pc[v]
    BY <2>1 DEF WriterTypes, Pc
  <2>4. WriterTypes'
    BY <1>1, <1>7, <2>1, <2>2, <2>3 DEF WriterTypes, Backends
  <2>5. OnlyMoves(w)
    BY <1>1, <2>1, <2>3 DEF OnlyMoves
  <2>6. Handles(w, evs)
    BY <1>1, <1>2, <1>6, <1>7, <2>1, <2>2, <2>3, <2>5 DEF Handles, Retrying, h
  <2>. QED  BY <2>4, <2>6
<1>9. CASE ResendFails(w)
  <2>1. /\ failed' = [failed EXCEPT ![w] = TRUE] /\ pc[w] = "resend" /\ tried' = tried
        /\ NextFrame(w)
    BY <1>9 DEF ResendFails
  <2>2. /\ frames' \in [Workers -> Seq(Seq(Nat))] /\ pc' \in [Workers -> Pc]
        /\ frames'[w] = Tail(frames[w])
        /\ pc'[w] = IF Tail(frames[w]) = <<>> THEN "unlock" ELSE "send"
        /\ \A v \in Workers \ {w} : pc'[v] = pc[v] /\ frames'[v] = frames[v]
    BY <1>2, <2>1, NextFrameMoves
  <2>3. /\ failed' \in [Workers -> BOOLEAN] /\ failed'[w]
        /\ \A v \in Workers \ {w} : failed'[v] = failed[v]
    BY <2>1 DEF WriterTypes
  <2>4. WriterTypes'
    BY <1>1, <1>7, <2>1, <2>2, <2>3 DEF WriterTypes, Backends
  <2>5. OnlyMoves(w) /\ TriedGrows
    BY <1>1, <2>1, <2>2, <2>3 DEF OnlyMoves, TriedGrows
  <2>6. Handles(w, evs)
    BY <1>1, <1>2, <1>6, <1>7, <2>1, <2>2, <2>3, <2>5 DEF Handles, Retrying, h
  <2>. QED  BY <2>4, <2>6
<1>. QED  BY <1>8, <1>9

(* A reconnect takes nothing; one that fails gives up the first write. *)
LEMMA ReconnectHandles ==
  ASSUME WriterTypes, NEW w \in Workers, FramesOf(w), Reconnect(w) \/ ReconnectFails(w)
  PROVE  Handles(w, <<>>) /\ WriterTypes'
<1> DEFINE h == Head(frames[w])
<1>1. /\ UNCHANGED <<targets, mu, batch, at, calls, tried, taken>> /\ pc[w] = "reconnect"
  BY DEF Reconnect, ReconnectFails, history
<1>2. frames[w] # <<>>
  BY <1>1 DEF FramesOf
<1>3. h \in Seq(Nat) /\ Range(h) \subseteq Nat
  BY <1>2, FirstWrite
<1>4. /\ <<>> \in Seq(Nat) /\ IsInjective(<<>>)
      /\ Range(<<>>) \subseteq Range(Head(frames[w]))
      /\ taken' \in [Backends -> Seq(Nat)] /\ taken'[at[w]] = taken[at[w]] \o <<>>
      /\ \A t \in Backends : t # at[w] => taken'[t] = taken[t]
  BY <1>1, NothingTaken
<1>5. TriedGrows
  BY <1>1 DEF TriedGrows
<1>6. CASE Reconnect(w)
  <2>1. /\ resent' = [resent EXCEPT ![at[w]] = @ \cup Range(h)]
        /\ pc' = [pc EXCEPT ![w] = "resend"] /\ UNCHANGED <<frames, failed>>
    BY <1>6 DEF Reconnect, To
  <2> HIDE DEF h
  <2>2. /\ resent' \in [Backends -> SUBSET Nat] /\ Range(h) \subseteq resent'[at[w]]
        /\ \A t \in Backends : resent[t] \subseteq resent'[t]
    <3>1. resent \in [Backends -> SUBSET Nat] /\ at[w] \in Backends
      BY DEF WriterTypes
    <3>. QED  BY <1>3, <2>1, <3>1
  <2>3. /\ pc' \in [Workers -> Pc] /\ pc'[w] = "resend"
        /\ \A v \in Workers \ {w} : pc'[v] = pc[v]
    BY <2>1 DEF WriterTypes, Pc
  <2>4. WriterTypes'
    BY <1>1, <1>4, <2>1, <2>2, <2>3 DEF WriterTypes, Backends
  <2>5. OnlyMoves(w)
    BY <1>1, <2>1, <2>3 DEF OnlyMoves
  <2>6. Handles(w, <<>>)
    BY <1>1, <1>2, <1>4, <1>5, <2>1, <2>2, <2>3, <2>5 DEF Handles, Retrying, h
  <2>. QED  BY <2>4, <2>6
<1>7. CASE ReconnectFails(w)
  <2>1. failed' = [failed EXCEPT ![w] = TRUE] /\ resent' = resent /\ NextFrame(w)
    BY <1>7 DEF ReconnectFails, history
  <2>2. /\ frames' \in [Workers -> Seq(Seq(Nat))] /\ pc' \in [Workers -> Pc]
        /\ frames'[w] = Tail(frames[w])
        /\ pc'[w] = IF Tail(frames[w]) = <<>> THEN "unlock" ELSE "send"
        /\ \A v \in Workers \ {w} : pc'[v] = pc[v] /\ frames'[v] = frames[v]
    BY <1>2, <2>1, NextFrameMoves
  <2>3. /\ failed' \in [Workers -> BOOLEAN] /\ failed'[w]
        /\ \A v \in Workers \ {w} : failed'[v] = failed[v]
    BY <2>1 DEF WriterTypes
  <2>4. WriterTypes'
    BY <1>1, <1>4, <2>1, <2>2, <2>3 DEF WriterTypes, Backends
  <2>5. OnlyMoves(w)
    BY <1>1, <2>1, <2>2, <2>3 DEF OnlyMoves
  <2>6. Handles(w, <<>>)
    BY <1>1, <1>2, <1>4, <1>5, <2>1, <2>2, <2>3, <2>5 DEF Handles, Retrying
  <2>. QED  BY <2>4, <2>6
<1>. QED  BY <1>6, <1>7

(* A record is taken whole or given up. *)
LEMMA RecordHandles ==
  ASSUME WriterTypes, NEW w \in Workers, FramesOf(w), Record(w)
  PROVE  (\E evs : Handles(w, evs)) /\ WriterTypes'
<1> DEFINE h == Head(frames[w])
<1>1. /\ UNCHANGED <<targets, mu, pc, batch, at, calls, resent>> /\ pc[w] = "record"
      /\ frames[w] # <<>> /\ frames' = [frames EXCEPT ![w] = Tail(frames[w])]
      /\ tried' = [tried EXCEPT ![at[w]] = @ \cup Range(h)]
  BY DEF Record, Tried
<1>2. /\ h \in Seq(Nat) /\ IsInjective(h) /\ Range(h) \subseteq Nat
      /\ Tail(frames[w]) \in Seq(Seq(Nat))
  BY <1>1, FirstWrite
<1>3. tried' \in [Backends -> SUBSET Nat] /\ TriedGrows /\ Range(h) \subseteq tried'[at[w]]
  BY <1>1, <1>2, TriedTypes
<1>4. /\ frames' \in [Workers -> Seq(Seq(Nat))] /\ frames'[w] = Tail(frames[w])
      /\ \A v \in Workers \ {w} : frames'[v] = frames[v]
  BY <1>1, <1>2 DEF WriterTypes
<1>5. CASE taken' = [taken EXCEPT ![at[w]] = @ \o h] /\ failed' = failed
  <2>1. /\ taken' \in [Backends -> Seq(Nat)] /\ taken'[at[w]] = taken[at[w]] \o h
        /\ \A t \in Backends : t # at[w] => taken'[t] = taken[t]
    BY <1>2, <1>5, TakeTypes
  <2> HIDE DEF h
  <2>2. WriterTypes'
    BY <1>1, <1>3, <1>4, <1>5, <2>1 DEF WriterTypes, Backends
  <2>3. OnlyMoves(w)
    BY <1>1, <1>4, <1>5 DEF OnlyMoves
  <2>4. Handles(w, h)
    BY <1>1, <1>2, <1>3, <1>4, <1>5, <2>1, <2>3 DEF Handles, Retrying, h
  <2>. QED  BY <2>2, <2>4
<1>6. CASE taken' = taken /\ failed' = [failed EXCEPT ![w] = TRUE]
  <2>1. /\ <<>> \in Seq(Nat) /\ IsInjective(<<>>)
        /\ Range(<<>>) \subseteq Range(Head(frames[w]))
        /\ taken' \in [Backends -> Seq(Nat)] /\ taken'[at[w]] = taken[at[w]] \o <<>>
        /\ \A t \in Backends : t # at[w] => taken'[t] = taken[t]
    BY <1>6, NothingTaken
  <2>2. /\ failed' \in [Workers -> BOOLEAN] /\ failed'[w]
        /\ \A v \in Workers \ {w} : failed'[v] = failed[v]
    BY <1>6 DEF WriterTypes
  <2>3. WriterTypes'
    BY <1>1, <1>3, <1>4, <2>1, <2>2 DEF WriterTypes, Backends
  <2>4. OnlyMoves(w)
    BY <1>1, <1>4, <2>2 DEF OnlyMoves
  <2>5. Handles(w, <<>>)
    BY <1>1, <1>3, <1>4, <2>1, <2>2, <2>4 DEF Handles, Retrying
  <2>. QED  BY <2>3, <2>5
<1>7. \/ taken' = [taken EXCEPT ![at[w]] = @ \o h] /\ failed' = failed
      \/ taken' = taken /\ failed' = [failed EXCEPT ![w] = TRUE]
  BY DEF Record, Take
<1>. QED  BY <1>5, <1>6, <1>7

----------------------------------------------------------------------------
(* The invariant, worker by worker                                         *)

EventsInv(w) == FramesOf(w) /\ TriedSoFar(w) /\ TakenSoFar(w) /\ FreshFor(w) /\ HoldsMutex(w)

(* Nothing changes for a worker whose events nobody else can have. *)
Undisturbed(v) ==
  /\ targets' = targets /\ pc'[v] = pc[v] /\ batch'[v] = batch[v] /\ at'[v] = at[v]
  /\ frames'[v] = frames[v] /\ failed'[v] = failed[v]
  /\ TriedGrows
  /\ \A t \in Backends :
       /\ Range(taken[t]) \subseteq Range(taken'[t]) /\ resent[t] \subseteq resent'[t]
       /\ \A e \in Mine(v) : /\ e \in Range(taken'[t]) => e \in Range(taken[t])
                             /\ Count(taken'[t], e) = Count(taken[t], e)
  /\ pc[v] \in Locked => mu'[at[v]] = mu[at[v]] /\ taken'[at[v]] = taken[at[v]]

(* Who is not disturbed keeps its invariant. *)
LEMMA UndisturbedKeeps ==
  ASSUME WriterTypes, NEW v \in Workers, Undisturbed(v), EventsInv(v)
  PROVE  EventsInv(v)'
<1>1. at[v] \in Backends
  BY DEF WriterTypes
<1>2. /\ targets' = targets /\ pc'[v] = pc[v] /\ batch'[v] = batch[v] /\ at'[v] = at[v]
      /\ frames'[v] = frames[v] /\ failed'[v] = failed[v] /\ Backends' = Backends
  BY DEF Undisturbed, Backends
<1>3. Mine(v)' = Mine(v) /\ Pending(v)' = Pending(v)
  BY <1>2 DEF Mine, Pending
<1>4. FramesOf(v)'
  BY <1>2, <1>3 DEF EventsInv, FramesOf
<1>5. TriedSoFar(v)'
  <2>1. \A t \in Backends : tried[t] \subseteq tried'[t]
    BY DEF Undisturbed, TriedGrows
  <2>. QED  BY <1>1, <1>2, <1>3, <2>1 DEF EventsInv, TriedSoFar
<1>6. TakenSoFar(v)'
  <2>1. \A t \in Backends : Range(taken[t]) \subseteq Range(taken'[t])
    BY DEF Undisturbed
  <2>. QED  BY <1>1, <1>2, <1>3, <2>1 DEF EventsInv, TakenSoFar
<1>7. FreshFor(v)'
  <2>1. \A t \in Backends : /\ resent[t] \subseteq resent'[t]
                            /\ \A e \in Mine(v) : /\ e \in Range(taken'[t]) => e \in Range(taken[t])
                                                  /\ Count(taken'[t], e) = Count(taken[t], e)
    BY DEF Undisturbed
  <2>2. Pending(v) \subseteq Mine(v)
    BY DEF EventsInv, FramesOf
  <2>3. \A t \in Backends : t > at[v] => Mine(v) \cap Range(taken'[t]) = {}
    BY <2>1 DEF EventsInv, FreshFor
  <2>4. pc[v] \in {"build", "lock"} => Mine(v) \cap Range(taken'[at[v]]) = {}
    BY <1>1, <2>1 DEF EventsInv, FreshFor
  <2>5. pc[v] \in {"send", "record"} => Pending(v) \cap Range(taken'[at[v]]) = {}
    BY <1>1, <2>1, <2>2 DEF EventsInv, FreshFor
  <2>6. ASSUME pc[v] \in Retrying
        PROVE  /\ EventsOf(Tail(frames[v])) \cap Range(taken'[at[v]]) = {}
               /\ \A e \in Range(Head(frames[v])) : Count(taken'[at[v]], e) <= 1
    <3>1. frames[v] # <<>>
      BY <2>6 DEF EventsInv, FramesOf, Retrying
    <3>2. EventsOf(Tail(frames[v])) \subseteq Mine(v) /\ Range(Head(frames[v])) \subseteq Mine(v)
      BY <2>2, <3>1, FirstWrite DEF EventsInv
    <3>3. EventsOf(Tail(frames[v])) \cap Range(taken[at[v]]) = {}
      BY <2>6 DEF EventsInv, FreshFor
    <3>4. \A e \in Range(Head(frames[v])) : Count(taken[at[v]], e) <= 1
      BY <2>6 DEF EventsInv, FreshFor
    <3>. QED  BY <1>1, <2>1, <3>2, <3>3, <3>4
  <2>7. pc[v] = "resend" => Range(Head(frames[v])) \subseteq resent'[at[v]]
    BY <1>1, <2>1 DEF EventsInv, FreshFor
  <2>. QED  BY <1>2, <1>3, <2>3, <2>4, <2>5, <2>6, <2>7 DEF FreshFor
<1>8. HoldsMutex(v)'
  BY <1>2, <1>3 DEF EventsInv, HoldsMutex, Undisturbed
<1>. QED  BY <1>4, <1>5, <1>6, <1>7, <1>8 DEF EventsInv

(* The invariant of the worker that encodes its batch. *)
LEMMA PreparesKeeps ==
  ASSUME WriterTypes, NEW w \in Workers, EventsInv(w), Prepares(w)
  PROVE  EventsInv(w)'
<1>1. /\ targets' = targets /\ batch'[w] = batch[w] /\ at'[w] = at[w] /\ Backends' = Backends
      /\ UNCHANGED <<mu, taken, resent>> /\ pc[w] = "build" /\ at[w] \in Backends
      /\ pc'[w] \in {"lock", "record"}
  BY DEF Prepares, OnlyMoves, Backends, WriterTypes
<1>2. Mine(w)' = Mine(w) /\ Pending(w)' = EventsOf(frames'[w])
  BY <1>1 DEF Mine, Pending
<1>3. FramesOf(w)'
  BY <1>1, <1>2 DEF Prepares, FramesOf
<1>4. TriedSoFar(w)'
  <2>1. /\ \A t \in Backends : tried[t] \subseteq tried'[t]
        /\ Mine(w) \subseteq tried'[at[w]] \cup EventsOf(frames'[w])
    BY DEF Prepares, TriedGrows
  <2>. QED  BY <1>1, <1>2, <2>1 DEF EventsInv, TriedSoFar, Retrying
<1>5. TakenSoFar(w)'
  <2>1. ~failed'[w] => ~failed[w] /\ Mine(w) \subseteq EventsOf(frames'[w])
    BY DEF Prepares
  <2>. QED  BY <1>1, <1>2, <2>1 DEF EventsInv, TakenSoFar
<1>6. FreshFor(w)'
  <2>1. EventsOf(frames'[w]) \subseteq Mine(w)
    BY DEF Prepares
  <2>. QED  BY <1>1, <1>2, <2>1 DEF EventsInv, FreshFor, Retrying
<1>7. HoldsMutex(w)'
  BY <1>1 DEF HoldsMutex, Locked
<1>. QED  BY <1>3, <1>4, <1>5, <1>6, <1>7 DEF EventsInv

(* The invariant of the worker that leaves a backend. *)
LEMMA AdvancesKeeps ==
  ASSUME WriterTypes, NEW w \in Workers, EventsInv(w), Advances(w)
  PROVE  EventsInv(w)'
<1>1. /\ targets' = targets /\ batch'[w] = batch[w] /\ frames'[w] = <<>> /\ Backends' = Backends
      /\ frames[w] = <<>> /\ UNCHANGED <<taken, resent>>
      /\ at[w] \in Backends /\ pc'[w] \in {"return", "build"}
      /\ pc[w] \in {"build", "unlock", "record"}
      /\ pc'[w] = "return" => at[w] = Len(targets) /\ at'[w] = at[w]
      /\ pc'[w] = "build" => at[w] # Len(targets) /\ at'[w] = at[w] + 1
  BY DEF Advances, OnlyMoves, Backends, WriterTypes
<1>2. Mine(w)' = Mine(w) /\ Pending(w)' = {} /\ Pending(w) = {} /\ Distinct(frames'[w])
  <2>1. DOMAIN <<>> = {}
    OBVIOUS
  <2>. QED  BY <1>1, <2>1 DEF Mine, Pending, EventsOf, Distinct
<1>3. Backends \subseteq Nat
  <2>1. targets \in Seq(Protocols)
    BY DEF WriterTypes
  <2>. QED  BY <2>1 DEF Backends
<1>4. \A t \in Backends : (t < at[w] + 1 => t < at[w] \/ t = at[w]) /\ (t > at[w] + 1 => t > at[w])
  <2>1. \A m, n \in Nat : (m < n + 1 => m < n \/ m = n) /\ (m > n + 1 => m > n)
    OBVIOUS
  <2>2. at[w] \in Nat
    BY <1>1, <1>3
  <2>. QED  BY <1>3, <2>1, <2>2
<1>5. FramesOf(w)'
  BY <1>1, <1>2 DEF FramesOf
<1>6. Mine(w) \subseteq tried'[at[w]]
  <2>1. CASE pc[w] = "build"
    BY <2>1 DEF Advances
  <2>2. CASE pc[w] # "build"
    <3>1. Mine(w) \subseteq tried[at[w]]
      BY <1>1, <1>2, <2>2 DEF EventsInv, TriedSoFar, Working, Locked
    <3>. QED  BY <1>1, <3>1 DEF Advances, TriedGrows
  <2>. QED  BY <2>1, <2>2
<1>7. TriedSoFar(w)'
  <2>1. \A t \in Backends : tried[t] \subseteq tried'[t]
    BY DEF Advances, TriedGrows
  <2>2. \A t \in Backends : t < at[w] => Mine(w) \subseteq tried'[t]
    BY <2>1 DEF EventsInv, TriedSoFar
  <2>3. \A t \in Backends : t < at'[w] => Mine(w) \subseteq tried'[t]
    BY <1>1, <1>4, <1>6, <2>2
  <2>. QED  BY <1>1, <1>2, <1>6, <2>3 DEF TriedSoFar, Working, Locked, Retrying
<1>8. ~failed'[w] => ~failed[w] /\ Mine(w) \subseteq Range(taken[at[w]])
  BY <1>1, <1>2 DEF Advances, EventsInv, TakenSoFar, Working, Locked
<1>9. TakenSoFar(w)'
  <2>1. ~failed'[w] => \A t \in Backends : t < at[w] => Mine(w) \subseteq Range(taken[t])
    BY <1>8 DEF EventsInv, TakenSoFar
  <2>2. ~failed'[w] => \A t \in Backends : t < at'[w] => Mine(w) \subseteq Range(taken[t])
    BY <1>1, <1>4, <1>8, <2>1
  <2>. QED  BY <1>1, <1>2, <1>8, <2>2 DEF TakenSoFar, Working, Locked
<1>10. FreshFor(w)'
  <2>1. \A t \in Backends : t > at[w] => Mine(w) \cap Range(taken[t]) = {}
    BY DEF EventsInv, FreshFor
  <2>2. \A t \in Backends : t > at'[w] => Mine(w) \cap Range(taken[t]) = {}
    BY <1>1, <1>4, <2>1
  <2>3. ASSUME pc'[w] = "build" PROVE Mine(w) \cap Range(taken[at'[w]]) = {}
    <3>1. at[w] + 1 \in Backends /\ at[w] + 1 > at[w]
      <4>1. targets \in Seq(Protocols)
        BY DEF WriterTypes
      <4>2. Len(targets) \in Nat /\ Backends = 1..Len(targets)
        BY <4>1 DEF Backends
      <4>. QED  BY <1>1, <2>3, <4>2
    <3>. QED  BY <1>1, <2>1, <2>3, <3>1
  <2>. QED  BY <1>1, <1>2, <2>2, <2>3 DEF FreshFor, Retrying
<1>11. HoldsMutex(w)'
  BY <1>1 DEF HoldsMutex, Locked
<1>. QED  BY <1>5, <1>7, <1>9, <1>10, <1>11 DEF EventsInv

(* What the backend holds after it has taken evs. *)
LEMMA HandlesTakes ==
  ASSUME WriterTypes, NEW w \in Workers, EventsInv(w), NEW evs, Handles(w, evs)
  PROVE  LET s == taken[at[w]] IN
         /\ s \in Seq(Nat) /\ evs \in Seq(Nat) /\ taken'[at[w]] = s \o evs
         /\ Range(evs) \subseteq Mine(w)
         /\ Range(taken'[at[w]]) = Range(s) \cup Range(evs)
         /\ \A e : /\ Count(s, e) \in Nat /\ Count(taken'[at[w]], e) \in Nat
                   /\ e \notin Range(s) => Count(s, e) = 0
                   /\ e \notin Range(evs) => Count(taken'[at[w]], e) = Count(s, e)
                   /\ Count(taken'[at[w]], e) <= Count(s, e) + 1
<1> DEFINE s == taken[at[w]]
<1>1. s \in Seq(Nat) /\ evs \in Seq(Nat) /\ IsInjective(evs) /\ taken'[at[w]] = s \o evs
  BY DEF WriterTypes, Handles
<1>2. Range(evs) \subseteq Mine(w)
  BY FirstWrite DEF Handles, EventsInv, FramesOf
<1> HIDE DEF s
<1>3. Range(s \o evs) = Range(s) \cup Range(evs) /\ s \o evs \in Seq(Nat)
  BY <1>1, ConcatRange
<1>4. \A e : /\ Count(s, e) \in Nat /\ Count(s \o evs, e) \in Nat
             /\ e \notin Range(s) => Count(s, e) = 0
  BY <1>1, <1>3, CountTypes
<1>5. \A e : /\ e \notin Range(evs) => Count(s \o evs, e) = Count(s, e)
             /\ Count(s \o evs, e) <= Count(s, e) + 1
  BY <1>1, CountConcat
<1>. QED  BY <1>1, <1>2, <1>3, <1>4, <1>5 DEF s

(* The invariant of the worker whose write is made. *)
LEMMA HandlesKeeps ==
  ASSUME WriterTypes, NEW w \in Workers, EventsInv(w), NEW evs, Handles(w, evs)
  PROVE  EventsInv(w)'
<1> DEFINE h == Head(frames[w])
           r == Tail(frames[w])
           s == taken[at[w]]
           q == taken'[at[w]]
<1>1. /\ targets' = targets /\ batch'[w] = batch[w] /\ at'[w] = at[w] /\ Backends' = Backends
      /\ at[w] \in Backends /\ mu' = mu /\ frames[w] # <<>> /\ Range(evs) \subseteq Range(h)
  BY DEF Handles, OnlyMoves, Backends, WriterTypes
<1>2. Mine(w)' = Mine(w) /\ Pending(w)' = EventsOf(frames'[w])
  BY <1>1 DEF Mine, Pending
<1>3. /\ Distinct(r) /\ Pending(w) = Range(h) \cup EventsOf(r) /\ Range(h) \cap EventsOf(r) = {}
  BY <1>1, FirstWrite DEF EventsInv
<1>4. Pending(w) \subseteq Mine(w) /\ Pending(w) = EventsOf(frames[w]) /\ Distinct(frames[w])
  BY DEF EventsInv, FramesOf, Pending
<1>5. /\ Range(q) = Range(s) \cup Range(evs)
      /\ \A e : /\ Count(s, e) \in Nat /\ Count(q, e) \in Nat
                /\ e \notin Range(s) => Count(s, e) = 0
                /\ e \notin Range(evs) => Count(q, e) = Count(s, e)
                /\ Count(q, e) <= Count(s, e) + 1
  BY HandlesTakes
<1>6. \/ pc[w] = "send" /\ pc'[w] = "reconnect" /\ frames'[w] = frames[w]
      \/ /\ pc[w] = "reconnect" /\ pc'[w] = "resend" /\ frames'[w] = frames[w] /\ evs = <<>>
         /\ Range(h) \subseteq resent'[at[w]]
      \/ /\ pc[w] \in {"send", "resend", "reconnect"}
         /\ pc'[w] = IF r = <<>> THEN "unlock" ELSE "send"
         /\ frames'[w] = r
         /\ ~failed'[w] => Range(h) \subseteq Range(evs)
      \/ /\ pc[w] = "record" /\ pc'[w] = "record" /\ frames'[w] = r
         /\ ~failed'[w] => Range(h) \subseteq Range(evs)
  BY DEF Handles
<1>7. pc[w] \in {"reconnect"} => evs = <<>>
  BY DEF Handles
<1>8. Range(<<>>) = {}
  <2>1. DOMAIN <<>> = {}
    OBVIOUS
  <2>. QED  BY <2>1 DEF Range
<1>9. FramesOf(w)'
  <2>1. EventsOf(frames'[w]) \subseteq Mine(w) /\ Distinct(frames'[w])
    BY <1>3, <1>4, <1>6
  <2>2. pc[w] = "record" <=> targets[at[w]] = "serial"
    BY <1>6 DEF EventsInv, FramesOf
  <2> HIDE DEF h
  <2>. QED  BY <1>1, <1>2, <1>6, <2>1, <2>2 DEF FramesOf
<1>10. Range(h) \subseteq tried'[at[w]]
  <2>1. pc[w] \in Retrying => Range(h) \subseteq tried[at[w]]
    BY DEF EventsInv, TriedSoFar
  <2>. QED  BY <1>1, <2>1 DEF Handles, TriedGrows
<1>11. pc[w] \in Working /\ pc'[w] \in Working
  BY <1>6 DEF Working, Locked
<1>12. TriedSoFar(w)'
  <2>1. \A t \in Backends : tried[t] \subseteq tried'[t]
    BY DEF Handles, TriedGrows
  <2>2. \A t \in Backends : t < at[w] => Mine(w) \subseteq tried'[t]
    BY <2>1 DEF EventsInv, TriedSoFar
  <2>3. Mine(w) \subseteq tried[at[w]] \cup Pending(w)
    BY <1>11 DEF EventsInv, TriedSoFar
  <2>4. Mine(w) \subseteq tried'[at[w]] \cup EventsOf(frames'[w])
    BY <1>1, <1>3, <1>4, <1>6, <1>10, <2>1, <2>3
  <2>5. pc'[w] \in Retrying => frames'[w] = frames[w]
    BY <1>6 DEF Retrying
  <2>. QED  BY <1>1, <1>2, <1>6, <1>10, <2>2, <2>4, <2>5 DEF TriedSoFar
<1>13. TakenSoFar(w)'
  <2> SUFFICES ASSUME ~failed'[w]
               PROVE  /\ \A t \in Backends : t < at[w] => Mine(w) \subseteq Range(taken'[t])
                      /\ Mine(w) \subseteq Range(q) \cup EventsOf(frames'[w])
    BY <1>1, <1>2, <1>11, <1>6 DEF TakenSoFar
  <2>1. ~failed[w]
    BY DEF Handles
  <2>2. \A t \in Backends : t < at[w] => Mine(w) \subseteq Range(taken[t])
    BY <2>1 DEF EventsInv, TakenSoFar
  <2>3. Mine(w) \subseteq Range(s) \cup Pending(w)
    BY <1>11, <2>1 DEF EventsInv, TakenSoFar
  <2>4. \A t \in Backends : Range(taken[t]) \subseteq Range(taken'[t])
    BY <1>1, <1>5 DEF Handles
  <2>5. Mine(w) \subseteq Range(q) \cup EventsOf(frames'[w])
    <3> HIDE DEF q, s, h, r
    <3>. QED  BY <1>3, <1>4, <1>5, <1>6, <2>3
  <2>. QED  BY <2>2, <2>4, <2>5
<1>14. FreshFor(w)'
  <2>1. \A t \in Backends : t > at[w] => Mine(w) \cap Range(taken'[t]) = {}
    <3>1. \A n \in Nat : ~(n > n)
      OBVIOUS
    <3>2. at[w] \in Nat
      <4>1. targets \in Seq(Protocols)
        BY DEF WriterTypes
      <4>. QED  BY <1>1, <4>1 DEF Backends
    <3>3. \A t \in Backends : t > at[w] => taken'[t] = taken[t]
      BY <3>1, <3>2 DEF Handles
    <3>. QED  BY <3>3 DEF EventsInv, FreshFor
  <2>2. EventsOf(r) \cap Range(s) = {}
    <3>1. pc[w] \in {"send", "record"} => Pending(w) \cap Range(s) = {}
      BY DEF EventsInv, FreshFor
    <3>2. pc[w] \in {"reconnect", "resend"} => EventsOf(r) \cap Range(s) = {}
      BY DEF EventsInv, FreshFor, Retrying
    <3> HIDE DEF r, s, h
    <3>. QED  BY <1>3, <1>6, <3>1, <3>2
  <2>3. EventsOf(r) \cap Range(q) = {}
    <3> HIDE DEF r, s, h, q
    <3>. QED  BY <1>1, <1>3, <1>5, <2>2
  <2>4. ASSUME pc'[w] \in Retrying, NEW e \in Range(h) PROVE Count(q, e) <= 1
    <3>1. CASE pc[w] = "send"
      <4>1. e \notin Range(s)
        BY <1>3, <3>1 DEF EventsInv, FreshFor
      <4>. QED  BY <1>5, <4>1
    <3>2. CASE pc[w] = "reconnect"
      <4>1. Count(s, e) <= 1
        BY <3>2 DEF EventsInv, FreshFor, Retrying
      <4>2. e \notin Range(evs)
        BY <1>7, <1>8, <3>2
      <4>. QED  BY <1>5, <4>1, <4>2
    <3>. QED  BY <1>6, <2>4, <3>1, <3>2 DEF Retrying
  <2>5. pc'[w] \in Retrying => frames'[w] = frames[w]
    BY <1>6 DEF Retrying
  <2>6. pc'[w] \in {"send", "record"} => frames'[w] = r
    BY <1>6
  <2>7. pc'[w] = "resend" => Range(h) \subseteq resent'[at[w]]
    BY <1>6
  <2>8. pc'[w] \notin {"build", "lock"}
    BY <1>6
  <2>9. pc'[w] = "resend" => pc'[w] \in Retrying
    BY DEF Retrying
  <2>10. pc'[w] \in {"send", "record"} => EventsOf(frames'[w]) \cap Range(taken'[at'[w]]) = {}
    BY <1>1, <2>3, <2>6
  <2>11. pc'[w] \in Retrying =>
            /\ EventsOf(Tail(frames'[w])) \cap Range(taken'[at'[w]]) = {}
            /\ \A e \in Range(Head(frames'[w])) : Count(taken'[at'[w]], e) <= 1
    BY <1>1, <2>3, <2>4, <2>5
  <2>12. pc'[w] = "resend" => Range(Head(frames'[w])) \subseteq resent'[at'[w]]
    BY <1>1, <2>5, <2>7, <2>9
  <2>. QED  BY <1>1, <1>2, <2>1, <2>8, <2>10, <2>11, <2>12 DEF FreshFor
<1>15. HoldsMutex(w)'
  <2> SUFFICES ASSUME pc'[w] \in Locked
               PROVE  /\ mu[at[w]] = w
                      /\ Mine(w) \cap Range(q) # {} => q[Len(q)] \in Mine(w)
    BY <1>1, <1>2 DEF HoldsMutex
  <2>1. pc[w] \in Locked
    BY <1>6 DEF Locked
  <2>2. mu[at[w]] = w /\ (Mine(w) \cap Range(s) # {} => s[Len(s)] \in Mine(w))
    BY <2>1 DEF EventsInv, HoldsMutex
  <2>3. s \in Seq(Nat) /\ evs \in Seq(Nat) /\ q = s \o evs /\ Range(evs) \subseteq Mine(w)
    BY HandlesTakes
  <2> HIDE DEF q, s
  <2>4. CASE evs = <<>>
    <3>1. q = s
      BY <2>3, <2>4
    <3>. QED  BY <2>2, <3>1
  <2>5. CASE evs # <<>>
    <3>1. Len(evs) \in Nat /\ Len(evs) # 0 /\ Len(s) \in Nat /\ DOMAIN evs = 1..Len(evs)
      BY <2>3, <2>5
    <3>2. Len(q) = Len(s) + Len(evs) /\ \A i \in 1..Len(evs) : q[Len(s) + i] = evs[i]
      BY <2>3, ConcatRange
    <3>3. q[Len(q)] = evs[Len(evs)] /\ Len(evs) \in DOMAIN evs
      BY <3>1, <3>2
    <3>4. evs[Len(evs)] \in Range(evs)
      BY <3>3 DEF Range
    <3>. QED  BY <2>2, <2>3, <3>3, <3>4
  <2>. QED  BY <2>4, <2>5
<1>. QED  BY <1>9, <1>12, <1>13, <1>14, <1>15 DEF EventsInv

(* The other workers are not disturbed by a step of this one. *)
LEMMA HandlesLeavesOthers ==
  ASSUME WriterTypes, BatchesApart, NEW w \in Workers, EventsInv(w),
         NEW evs, Handles(w, evs), NEW v \in Workers \ {w}, EventsInv(v)
  PROVE  Undisturbed(v)
<1>1. /\ targets' = targets /\ pc'[v] = pc[v] /\ batch'[v] = batch[v] /\ at'[v] = at[v]
      /\ frames'[v] = frames[v] /\ failed'[v] = failed[v] /\ TriedGrows /\ mu' = mu
      /\ \A t \in Backends : (t # at[w] => taken'[t] = taken[t]) /\ resent[t] \subseteq resent'[t]
  BY DEF Handles, OnlyMoves
<1>2. /\ Range(evs) \subseteq Mine(w)
      /\ Range(taken'[at[w]]) = Range(taken[at[w]]) \cup Range(evs)
      /\ \A e : e \notin Range(evs) => Count(taken'[at[w]], e) = Count(taken[at[w]], e)
  BY HandlesTakes
<1>3. Mine(v) \cap Mine(w) = {}
  BY DEF BatchesApart
<1>4. ASSUME NEW t \in Backends
      PROVE  /\ Range(taken[t]) \subseteq Range(taken'[t])
             /\ \A e \in Mine(v) : /\ e \in Range(taken'[t]) => e \in Range(taken[t])
                                   /\ Count(taken'[t], e) = Count(taken[t], e)
  <2>1. CASE t = at[w]
    BY <1>2, <1>3, <2>1
  <2>2. CASE t # at[w]
    BY <1>1, <2>2
  <2>. QED  BY <2>1, <2>2
<1>5. ASSUME pc[v] \in Locked PROVE taken'[at[v]] = taken[at[v]]
  <2>1. at[v] \in Backends
    BY DEF WriterTypes
  <2>2. mu[at[v]] = v /\ targets[at[v]] # "serial"
    BY <1>5 DEF EventsInv, HoldsMutex, FramesOf, Locked
  <2>3. pc[w] \in Locked \/ pc[w] = "record"
    BY DEF Handles, Locked
  <2>4. at[v] # at[w]
    BY <2>2, <2>3 DEF EventsInv, HoldsMutex, FramesOf
  <2>. QED  BY <1>1, <2>1, <2>4
<1>. QED  BY <1>1, <1>4, <1>5 DEF Undisturbed

(* Steps that take nothing. *)
LEMMA QuietLeavesOthers ==
  ASSUME NEW w \in Workers, OnlyMoves(w), TriedGrows, taken' = taken, resent' = resent,
         NEW v \in Workers \ {w}, pc[v] \in Locked => mu'[at[v]] = mu[at[v]]
  PROVE  Undisturbed(v)
BY DEF OnlyMoves, Undisturbed

(* An unlock is of the mutex that nobody else holds. *)
LEMMA AdvancesLeavesOthers ==
  ASSUME WriterTypes, NEW w \in Workers, EventsInv(w), Advances(w),
         NEW v \in Workers \ {w}, EventsInv(v)
  PROVE  Undisturbed(v)
<1>1. ASSUME pc[v] \in Locked PROVE mu'[at[v]] = mu[at[v]]
  <2>1. at[v] \in Backends /\ mu[at[v]] = v
    BY <1>1 DEF EventsInv, HoldsMutex, WriterTypes
  <2>2. pc[w] = "unlock" => mu[at[w]] = w
    BY DEF EventsInv, HoldsMutex, Locked
  <2>. QED  BY <2>1, <2>2 DEF Advances
<1>2. OnlyMoves(w) /\ TriedGrows /\ taken' = taken /\ resent' = resent
  BY DEF Advances
<1>. QED  BY <1>1, <1>2, QuietLeavesOthers

(* A lock is of the mutex that nobody holds. *)
LEMMA LockKeeps ==
  ASSUME WriterTypes, NEW w \in Workers, EventsInv(w), Lock(w)
  PROVE  /\ EventsInv(w)'
         /\ \A v \in Workers \ {w} : EventsInv(v) => Undisturbed(v)
<1>1. /\ UNCHANGED <<targets, batch, at, frames, failed, calls, taken, tried, resent>>
      /\ pc[w] = "lock" /\ mu[at[w]] = NoOne /\ Backends' = Backends
      /\ mu' = [mu EXCEPT ![at[w]] = w]
  BY DEF Lock, history, Backends
<1>2. pc'[w] = "send" /\ mu'[at[w]] = w /\ \A t \in Backends : t # at[w] => mu'[t] = mu[t]
  BY DEF Lock, To, WriterTypes
<1>3. Mine(w)' = Mine(w) /\ Pending(w)' = Pending(w) /\ Pending(w) \subseteq Mine(w)
  BY <1>1 DEF Mine, Pending, EventsInv, FramesOf
<1>4. FramesOf(w)'
  BY <1>1, <1>2, <1>3 DEF EventsInv, FramesOf
<1>5. TriedSoFar(w)'
  BY <1>1, <1>2, <1>3 DEF EventsInv, TriedSoFar, Working, Locked, Retrying
<1>6. TakenSoFar(w)'
  BY <1>1, <1>2, <1>3 DEF EventsInv, TakenSoFar, Working, Locked
<1>7. Mine(w) \cap Range(taken[at[w]]) = {}
  BY <1>1 DEF EventsInv, FreshFor
<1>8. FreshFor(w)'
  BY <1>1, <1>2, <1>3, <1>7 DEF EventsInv, FreshFor, Retrying
<1>9. HoldsMutex(w)'
  BY <1>1, <1>2, <1>3, <1>7 DEF HoldsMutex
<1>10. ASSUME NEW v \in Workers \ {w}, EventsInv(v) PROVE Undisturbed(v)
  <2>1. pc[v] \in Locked => mu'[at[v]] = mu[at[v]]
    <3>1. pc[v] \in Locked => mu[at[v]] = v /\ at[v] \in Backends
      BY <1>10 DEF EventsInv, HoldsMutex, WriterTypes
    <3>. QED  BY <1>1, <1>2, <3>1, WritersAssumption
  <2>2. OnlyMoves(w) /\ TriedGrows
    BY <1>1, PlainStepTypes DEF TriedGrows
  <2>. QED  BY <1>1, <2>1, <2>2, QuietLeavesOthers
<1>. QED  BY <1>4, <1>5, <1>6, <1>8, <1>9, <1>10 DEF EventsInv

(* A new batch is of events that no backend and no other worker has. *)
LEMMA CallBatch ==
  ASSUME WriterTypes, BatchesApart, NEW w \in Workers, Call(w)
  PROVE  /\ Mine(w)' \subseteq (calls + 1)..calls' /\ IsInjective(batch'[w])
         /\ calls' \in Nat /\ calls <= calls'
         /\ \A t \in Backends : Mine(w)' \cap Range(taken[t]) = {}
         /\ \A v \in Workers : Mine(w)' \cap Mine(v) = {}
<1>1. PICK n \in 1..MaxBatch :
        calls' = calls + n /\ batch' = [batch EXCEPT ![w] = [i \in 1..n |-> calls + i]]
  BY DEF Call
<1>2. n \in Nat /\ calls \in Nat
  BY WritersAssumption DEF WriterTypes
<1>3. batch'[w] = [i \in 1..n |-> calls + i]
  BY <1>1 DEF WriterTypes
<1>4. IsInjective(batch'[w])
  BY <1>2, <1>3 DEF IsInjective
<1>5. Mine(w)' \subseteq (calls + 1)..calls'
  BY <1>1, <1>2, <1>3 DEF Mine, Range
<1>6. calls' \in Nat /\ calls <= calls' /\ ((calls + 1)..calls') \cap (1..calls) = {}
  BY <1>1, <1>2
<1>7. /\ \A t \in Backends : Range(taken[t]) \subseteq 1..calls
      /\ \A v \in Workers : Mine(v) \subseteq 1..calls
  BY DEF BatchesApart
<1>. QED  BY <1>4, <1>5, <1>6, <1>7

(* A new batch starts with everything to be done. *)
LEMMA CallKeeps ==
  ASSUME WriterTypes, BatchesApart, NEW w \in Workers, EventsInv(w), Call(w)
  PROVE  /\ EventsInv(w)' /\ BatchesApart'
         /\ \A v \in Workers \ {w} : Undisturbed(v)
<1>1. /\ UNCHANGED <<targets, mu, frames, taken, tried, resent>> /\ Backends' = Backends
      /\ pc[w] = "idle" /\ pc'[w] = "build" /\ at'[w] = 1 /\ ~failed'[w] /\ frames[w] = <<>>
  BY DEF Call, To, WriterTypes, Backends, EventsInv, FramesOf
<1>2. OnlyMoves(w)
  BY CallIsLocal
<1>3. /\ Mine(w)' \subseteq (calls + 1)..calls' /\ IsInjective(batch'[w])
      /\ calls' \in Nat /\ calls <= calls'
      /\ \A t \in Backends : Mine(w)' \cap Range(taken[t]) = {}
      /\ \A v \in Workers : Mine(w)' \cap Mine(v) = {}
  BY CallBatch
<1>4. Pending(w)' = {} /\ Distinct(frames'[w])
  <2>1. DOMAIN <<>> = {}
    OBVIOUS
  <2>. QED  BY <1>1, <2>1 DEF Pending, EventsOf, Distinct
<1>5. FramesOf(w)'
  BY <1>1, <1>4 DEF FramesOf
<1>6. Backends = 1..Len(targets) /\ Len(targets) \in Nat /\ 1 \in Backends
  <2>1. targets \in Seq(Protocols) /\ targets # <<>>
    BY DEF WriterTypes
  <2>. QED  BY <2>1 DEF Backends
<1>7. \A t \in Backends : ~(t < 1)
  BY <1>6
<1>8. TriedSoFar(w)' /\ TakenSoFar(w)'
  BY <1>1, <1>7 DEF TriedSoFar, TakenSoFar, Working, Locked, Retrying
<1>9. FreshFor(w)'
  BY <1>1, <1>3, <1>6 DEF FreshFor, Retrying
<1>10. HoldsMutex(w)'
  BY <1>1 DEF HoldsMutex, Locked
<1>11. ASSUME NEW v \in Workers \ {w} PROVE Undisturbed(v)
  BY <1>1, <1>2, QuietLeavesOthers DEF TriedGrows
<1>12. BatchesApart'
  <2>1. \A v \in Workers \ {w} : Mine(v)' = Mine(v) /\ batch'[v] = batch[v] /\ pc'[v] = pc[v]
    BY <1>2 DEF OnlyMoves, Mine
  <2>2. calls \in Nat /\ (calls + 1)..calls' \subseteq 1..calls' /\ 1..calls \subseteq 1..calls'
    BY <1>3 DEF WriterTypes
  <2>3. \A v \in Workers : /\ pc'[v] = "idle" => batch'[v] = <<>>
                           /\ Mine(v)' \subseteq 1..calls' /\ IsInjective(batch'[v])
    BY <1>1, <1>3, <2>1, <2>2 DEF BatchesApart
  <2>4. \A u, v \in Workers : u # v => Mine(u)' \cap Mine(v)' = {}
    <3> SUFFICES ASSUME NEW u \in Workers, NEW v \in Workers, u # v
                 PROVE  Mine(u)' \cap Mine(v)' = {}
      OBVIOUS
    <3>1. CASE u # w /\ v # w
      BY <2>1, <3>1 DEF BatchesApart
    <3>2. CASE u = w
      BY <1>3, <2>1, <3>2
    <3>3. CASE v = w
      BY <1>3, <2>1, <3>3
    <3>. QED  BY <3>1, <3>2, <3>3
  <2>5. \A t \in Backends : Range(taken'[t]) \subseteq 1..calls'
    BY <1>1, <2>2 DEF BatchesApart
  <2>. QED  BY <1>1, <2>3, <2>4, <2>5 DEF BatchesApart
<1>. QED  BY <1>5, <1>8, <1>9, <1>10, <1>11, <1>12 DEF EventsInv

(* A batch that is returned is nobody's any more. *)
LEMMA ReturnKeeps ==
  ASSUME WriterTypes, BatchesApart, NEW w \in Workers, EventsInv(w), Return(w)
  PROVE  /\ EventsInv(w)' /\ BatchesApart'
         /\ \A v \in Workers \ {w} : Undisturbed(v)
<1>1. /\ UNCHANGED <<targets, mu, calls, taken, tried, resent>> /\ Backends' = Backends
      /\ pc'[w] = "idle" /\ batch'[w] = <<>> /\ frames'[w] = <<>>
  BY DEF Return, To, WriterTypes, Backends, history
<1>2. OnlyMoves(w)
  BY PlainStepTypes
<1>3. Mine(w)' = {} /\ Pending(w)' = {} /\ Distinct(frames'[w]) /\ IsInjective(batch'[w])
  <2>1. DOMAIN <<>> = {}
    OBVIOUS
  <2>. QED  BY <1>1, <2>1 DEF Mine, Range, Pending, EventsOf, Distinct, IsInjective
<1>4. FramesOf(w)'
  BY <1>1, <1>3 DEF FramesOf
<1>5. TriedSoFar(w)' /\ TakenSoFar(w)'
  BY <1>1, <1>3 DEF TriedSoFar, TakenSoFar, Working, Locked, Retrying
<1>6. FreshFor(w)' /\ HoldsMutex(w)'
  BY <1>1, <1>3 DEF FreshFor, Retrying, HoldsMutex, Locked
<1>7. ASSUME NEW v \in Workers \ {w} PROVE Undisturbed(v)
  BY <1>1, <1>2, QuietLeavesOthers DEF TriedGrows
<1>8. BatchesApart'
  <2>1. \A v \in Workers \ {w} : Mine(v)' = Mine(v) /\ batch'[v] = batch[v] /\ pc'[v] = pc[v]
    BY <1>2 DEF OnlyMoves, Mine
  <2>2. \A v \in Workers : /\ pc'[v] = "idle" => batch'[v] = <<>>
                           /\ Mine(v)' \subseteq 1..calls /\ IsInjective(batch'[v])
    BY <1>1, <1>3, <2>1 DEF BatchesApart
  <2>3. \A u, v \in Workers : u # v => Mine(u)' \cap Mine(v)' = {}
    BY <1>3, <2>1 DEF BatchesApart
  <2>. QED  BY <1>1, <2>2, <2>3 DEF BatchesApart
<1>. QED  BY <1>4, <1>5, <1>6, <1>7, <1>8 DEF EventsInv

(* The steps between call and return bring no event and take none from elsewhere. *)
LEMMA BatchesKept ==
  ASSUME BatchesApart, NEW w \in Workers, OnlyMoves(w), batch'[w] = batch[w],
         calls' = calls, pc'[w] # "idle",
         \A t \in Backends : Range(taken'[t]) \subseteq Range(taken[t]) \cup Mine(w)
  PROVE  BatchesApart'
<1>1. \A v \in Workers : Mine(v)' = Mine(v) /\ batch'[v] = batch[v]
                         /\ (pc'[v] = "idle" => pc[v] = "idle")
  BY DEF OnlyMoves, Mine
<1>2. Backends' = Backends
  BY DEF OnlyMoves, Backends
<1>3. \A t \in Backends : Range(taken'[t]) \subseteq 1..calls
  BY DEF BatchesApart
<1>4. \A v \in Workers : /\ pc'[v] = "idle" => batch'[v] = <<>>
                         /\ Mine(v)' \subseteq 1..calls' /\ IsInjective(batch'[v])
  BY <1>1 DEF BatchesApart
<1>5. \A u, v \in Workers : u # v => Mine(u)' \cap Mine(v)' = {}
  BY <1>1 DEF BatchesApart
<1>. QED  BY <1>2, <1>3, <1>4, <1>5 DEF BatchesApart

----------------------------------------------------------------------------
(* The invariant of all workers together                                   *)

WritersInv == WriterTypes /\ BatchesApart /\ \A w \in Workers : EventsInv(w)

(* Every step of WriteBatch is one of five kinds. *)
LEMMA StepKinds ==
  ASSUME WriterTypes, BatchesApart, NEW w \in Workers, EventsInv(w), WriteBatch(w)
  PROVE  /\ WriterTypes'
         /\ \/ Prepares(w) \/ Advances(w) \/ Lock(w) \/ Return(w)
            \/ \E evs : Handles(w, evs)
<1>1. FramesOf(w)
  BY DEF EventsInv
<1>2. CASE Build(w)
  BY <1>2, BuildPrepares
<1>3. CASE BuildWindow(w) \/ BuildSerial(w)
  BY <1>3, WindowPrepares
<1>4. CASE BuildNothing(w) \/ Unlock(w) \/ RecordsEnd(w)
  BY <1>1, <1>4, DoneAdvances
<1>5. CASE Lock(w) \/ Return(w)
  BY <1>5, PlainStepTypes
<1>6. CASE SendTaken(w)
  BY <1>1, <1>6, SendTakenHandles
<1>7. CASE SendFails(w) \/ ResendFails(w)
  BY <1>1, <1>7, SendFailsHandles
<1>8. CASE Reconnect(w) \/ ReconnectFails(w)
  BY <1>1, <1>8, ReconnectHandles
<1>9. CASE Record(w)
  BY <1>1, <1>9, RecordHandles
<1>. QED  BY <1>2, <1>3, <1>4, <1>5, <1>6, <1>7, <1>8, <1>9 DEF WriteBatch

(* The invariant of one worker and the calm of the others is that of all. *)
LEMMA OneAtATime ==
  ASSUME WritersInv, NEW w \in Workers, EventsInv(w)',
         \A v \in Workers \ {w} : Undisturbed(v)
  PROVE  \A v \in Workers : EventsInv(v)'
<1>1. ASSUME NEW v \in Workers \ {w} PROVE EventsInv(v)'
  <2>1. WriterTypes /\ EventsInv(v) /\ Undisturbed(v)
    BY DEF WritersInv
  <2>. QED  BY <2>1, UndisturbedKeeps
<1>. QED  BY <1>1

(* Each kind of step keeps the invariant. *)
LEMMA WriteBatchKeepsInv ==
  ASSUME WritersInv, NEW w \in Workers, WriteBatch(w)
  PROVE  WritersInv'
<1>1. WriterTypes /\ BatchesApart /\ EventsInv(w) /\ \A v \in Workers : EventsInv(v)
  BY DEF WritersInv
<1>2. /\ WriterTypes'
      /\ \/ Prepares(w) \/ Advances(w) \/ Lock(w) \/ Return(w)
         \/ \E evs : Handles(w, evs)
  BY <1>1, StepKinds
<1>3. CASE Prepares(w)
  <2>1. /\ OnlyMoves(w) /\ TriedGrows /\ taken' = taken /\ resent' = resent /\ mu' = mu
        /\ batch'[w] = batch[w] /\ calls' = calls /\ pc'[w] # "idle"
    BY <1>3 DEF Prepares
  <2>2. \A v \in Workers \ {w} : Undisturbed(v)
    BY <2>1, QuietLeavesOthers
  <2>3. EventsInv(w)'
    BY <1>1, <1>3, PreparesKeeps
  <2>4. BatchesApart'
    BY <1>1, <2>1, BatchesKept
  <2>. QED  BY <1>2, <2>2, <2>3, <2>4, OneAtATime DEF WritersInv
<1>4. CASE Advances(w)
  <2>1. /\ OnlyMoves(w) /\ taken' = taken
        /\ batch'[w] = batch[w] /\ calls' = calls /\ pc'[w] # "idle"
    BY <1>4 DEF Advances
  <2>2. \A v \in Workers \ {w} : Undisturbed(v)
    BY <1>1, <1>4, AdvancesLeavesOthers
  <2>3. EventsInv(w)'
    BY <1>1, <1>4, AdvancesKeeps
  <2>4. BatchesApart'
    BY <1>1, <2>1, BatchesKept
  <2>. QED  BY <1>2, <2>2, <2>3, <2>4, OneAtATime DEF WritersInv
<1>5. CASE Lock(w)
  <2>1. taken' = taken /\ batch' = batch /\ calls' = calls
    BY <1>5 DEF Lock, history
  <2>2. pc'[w] # "idle"
    BY <1>1, <1>5 DEF Lock, To, WriterTypes
  <2>3. OnlyMoves(w)
    BY <1>1, <1>5, PlainStepTypes
  <2>4. EventsInv(w)' /\ \A v \in Workers \ {w} : Undisturbed(v)
    BY <1>1, <1>5, LockKeeps
  <2>5. BatchesApart'
    BY <1>1, <2>1, <2>2, <2>3, BatchesKept
  <2>. QED  BY <1>2, <2>4, <2>5, OneAtATime DEF WritersInv
<1>6. CASE Return(w)
  BY <1>1, <1>2, <1>6, ReturnKeeps, OneAtATime DEF WritersInv
<1>7. ASSUME NEW evs, Handles(w, evs) PROVE WritersInv'
  <2>1. /\ OnlyMoves(w) /\ batch'[w] = batch[w] /\ calls' = calls /\ pc'[w] # "idle"
        /\ \A t \in Backends : t # at[w] => taken'[t] = taken[t]
    BY <1>7 DEF Handles
  <2>2. Range(taken'[at[w]]) \subseteq Range(taken[at[w]]) \cup Mine(w)
    BY <1>1, <1>7, HandlesTakes
  <2>3. \A v \in Workers \ {w} : Undisturbed(v)
    BY <1>1, <1>7, HandlesLeavesOthers
  <2>4. EventsInv(w)'
    BY <1>1, <1>7, HandlesKeeps
  <2>5. \A t \in Backends : Range(taken'[t]) \subseteq Range(taken[t]) \cup Mine(w)
    BY <2>1, <2>2
  <2>6. BatchesApart'
    BY <1>1, <2>1, <2>5, BatchesKept
  <2>. QED  BY <1>2, <2>3, <2>4, <2>6, OneAtATime DEF WritersInv
<1>. QED  BY <1>2, <1>3, <1>4, <1>5, <1>6, <1>7

(* The constructors establish the invariant. *)
LEMMA WritersInit ==
  ASSUME Init
  PROVE  WritersInv
<1>1. targets \in Seq(Protocols) /\ targets # <<>> /\ 1 \in Backends
  BY WritersAssumption DEF Init, Backends
<1>2. Range(<<>>) = {} /\ IsInjective(<<>>) /\ <<>> \in Seq(Nat) /\ <<>> \in Seq(Seq(Nat))
  BY DEF Range, IsInjective
<1>3. WriterTypes
  BY <1>1, <1>2, WritersAssumption DEF Init, WriterTypes, Pc
<1>4. /\ \A w \in Workers : batch[w] = <<>> /\ frames[w] = <<>> /\ pc[w] = "idle"
      /\ \A t \in Backends : taken[t] = <<>>
  BY DEF Init
<1>5. \A w \in Workers : Mine(w) = {}
  BY <1>2, <1>4 DEF Mine
<1>6. BatchesApart
  BY <1>2, <1>4, <1>5 DEF BatchesApart
<1>7. ASSUME NEW w \in Workers PROVE EventsInv(w)
  <2>1. Pending(w) = {} /\ Distinct(frames[w])
    BY <1>4 DEF Pending, EventsOf, Distinct
  <2>. QED  BY <1>4, <1>5, <2>1 DEF EventsInv, FramesOf, TriedSoFar, TakenSoFar, FreshFor, HoldsMutex,
              Working, Locked, Retrying
<1>. QED  BY <1>3, <1>6, <1>7 DEF WritersInv

(* Close, and a step of something else, change nothing the invariant is about. *)
LEMMA CalmKeepsInv ==
  ASSUME WritersInv,
         UNCHANGED <<targets, mu, pc, batch, at, frames, failed, calls, taken, tried, resent>>
  PROVE  WritersInv'
<1>1. Backends' = Backends /\ \A w \in Workers : Mine(w)' = Mine(w) /\ Pending(w)' = Pending(w)
  BY DEF Backends, Mine, Pending
<1>2. WriterTypes'
  BY <1>1 DEF WritersInv, WriterTypes
<1>3. BatchesApart'
  BY <1>1 DEF WritersInv, BatchesApart
<1>4. ASSUME NEW v \in Workers PROVE Undisturbed(v)
  BY DEF Undisturbed, TriedGrows
<1>5. ASSUME NEW v \in Workers PROVE EventsInv(v)'
  BY <1>4, UndisturbedKeeps DEF WritersInv
<1>. QED  BY <1>2, <1>3, <1>5 DEF WritersInv

(* The invariant is inductive. *)
LEMMA NextKeepsInv ==
  ASSUME WritersInv, [Next]_vars
  PROVE  WritersInv'
<1>1. CASE UNCHANGED vars
  BY <1>1, CalmKeepsInv DEF vars, connVars, callVars, history
<1>2. CASE Close
  BY <1>2, CalmKeepsInv DEF Close, callVars, history
<1>3. ASSUME NEW w \in Workers, Call(w) PROVE WritersInv'
  <2>1. WriterTypes /\ BatchesApart /\ EventsInv(w)
    BY DEF WritersInv
  <2>2. WriterTypes'
    BY <1>3, <2>1, CallIsLocal
  <2>3. EventsInv(w)' /\ BatchesApart' /\ \A v \in Workers \ {w} : Undisturbed(v)
    BY <1>3, <2>1, CallKeeps
  <2>. QED  BY <2>2, <2>3, OneAtATime DEF WritersInv
<1>. QED  BY <1>1, <1>2, <1>3, WriteBatchKeepsInv DEF Next

(* The invariant holds throughout. *)
LEMMA AlwaysWritersInv == Spec => []WritersInv
BY WritersInit, NextKeepsInv, PTL DEF Spec

----------------------------------------------------------------------------
(* What a caller of WriteBatch may rely on                                 *)

(* Where WriteBatch returns, every backend is done with the batch. *)
LEMMA ReturnIsLast ==
  ASSUME WriterTypes, NEW w \in Workers, EventsInv(w), pc[w] = "return", NEW t \in Backends
  PROVE  t < at[w] \/ t = at[w]
<1>1. at[w] = Len(targets) /\ targets \in Seq(Protocols)
  BY DEF EventsInv, TriedSoFar, WriterTypes
<1>. QED  BY <1>1 DEF Backends

(* A batch that WriteBatch reports without an error, which the queue counts as
   written, was taken by every backend of the configuration, event by event: no
   failed encoding, send, dial or record goes unreported. *)
THEOREM WrittenWasTaken == Spec => []WrittenIsTaken
<1>1. WritersInv => WrittenIsTaken
  <2> SUFFICES ASSUME WritersInv, NEW w \in Workers, pc[w] = "return", ~failed[w], NEW t \in Backends
               PROVE  Mine(w) \subseteq Range(taken[t])
    BY DEF WrittenIsTaken, Mine
  <2>1. WriterTypes /\ EventsInv(w)
    BY DEF WritersInv
  <2>2. t < at[w] \/ t = at[w]
    BY <2>1, ReturnIsLast
  <2>. QED  BY <2>1, <2>2 DEF EventsInv, TakenSoFar
<1>. QED  BY <1>1, AlwaysWritersInv, PTL

(* An event that fails keeps no other event, and a backend that fails no other
   backend, from being tried before WriteBatch returns. *)
THEOREM NothingIsSkipped == Spec => []EveryEventIsTried
<1>1. WritersInv => EveryEventIsTried
  <2> SUFFICES ASSUME WritersInv, NEW w \in Workers, pc[w] = "return", NEW t \in Backends
               PROVE  Mine(w) \subseteq tried[t]
    BY DEF EveryEventIsTried, Mine
  <2>1. WriterTypes /\ EventsInv(w)
    BY DEF WritersInv
  <2>2. t < at[w] \/ t = at[w]
    BY <2>1, ReturnIsLast
  <2>. QED  BY <2>1, <2>2 DEF EventsInv, TriedSoFar
<1>. QED  BY <1>1, AlwaysWritersInv, PTL

----------------------------------------------------------------------------
(* How often a backend takes an event                                      *)

(* A write is taken for the first time when none of it was taken before, and for
   the second time when the reconnect has noted it. *)
LEMMA HandlesRepeatsOnce ==
  ASSUME WritersInv, ReplayedAtMostOnce, NEW w \in Workers, NEW evs, Handles(w, evs)
  PROVE  ReplayedAtMostOnce'
<1>1. WriterTypes /\ EventsInv(w) /\ FreshFor(w)
  BY DEF WritersInv, EventsInv
<1>2. /\ targets' = targets /\ calls' = calls /\ Range(evs) \subseteq Range(Head(frames[w]))
      /\ \A t \in Backends : (t # at[w] => taken'[t] = taken[t]) /\ resent[t] \subseteq resent'[t]
      /\ frames[w] # <<>> /\ at[w] \in Backends
  BY <1>1 DEF Handles, OnlyMoves, WriterTypes
<1>3. \A e : /\ Count(taken[at[w]], e) \in Nat /\ Count(taken'[at[w]], e) \in Nat
             /\ e \notin Range(taken[at[w]]) => Count(taken[at[w]], e) = 0
             /\ e \notin Range(evs) => Count(taken'[at[w]], e) = Count(taken[at[w]], e)
             /\ Count(taken'[at[w]], e) <= Count(taken[at[w]], e) + 1
  BY <1>1, HandlesTakes
<1>4. \A t \in Backends : \A e \in 1..calls : Count(taken[t], e) <= IF e \in resent[t] THEN 2 ELSE 1
  BY DEF ReplayedAtMostOnce, Copies, Count
<1>5. ASSUME NEW t \in Backends, NEW e \in 1..calls
      PROVE  Count(taken'[t], e) <= IF e \in resent'[t] THEN 2 ELSE 1
  <2>1. CASE t # at[w]
    <3>1. Count(taken[t], e) <= IF e \in resent[t] THEN 2 ELSE 1
      BY <1>4
    <3>2. Count(taken[t], e) \in Nat
      BY <1>1, CountTypes DEF WriterTypes
    <3>. QED  BY <1>2, <2>1, <3>1, <3>2
  <2>2. CASE t = at[w] /\ e \notin Range(evs)
    <3>1. Count(taken[t], e) <= IF e \in resent[t] THEN 2 ELSE 1
      BY <1>4
    <3>. QED  BY <1>2, <1>3, <2>2, <3>1
  <2>3. CASE t = at[w] /\ e \in Range(evs)
    <3>1. e \in Range(Head(frames[w])) /\ evs # <<>>
      BY <1>2, <2>3 DEF Range
    <3>2. CASE pc[w] \in {"send", "record"}
      <4>1. e \in Pending(w)
        BY <1>1, <1>2, <3>1, FirstWrite DEF EventsInv
      <4>2. Count(taken[t], e) = 0
        BY <1>1, <1>3, <2>3, <3>2, <4>1 DEF FreshFor
      <4>. QED  BY <1>3, <2>3, <4>2
    <3>3. CASE pc[w] = "resend"
      <4>1. Count(taken[t], e) <= 1 /\ e \in resent[t]
        BY <1>1, <2>3, <3>1, <3>3 DEF FreshFor, Retrying
      <4>2. Count(taken'[t], e) <= 2
        BY <1>3, <2>3, <4>1
      <4>. QED  BY <1>2, <4>1, <4>2
    <3>. QED  BY <3>1, <3>2, <3>3 DEF Handles
  <2>. QED  BY <2>1, <2>2, <2>3
<1>. QED  BY <1>2, <1>5 DEF ReplayedAtMostOnce, Copies, Count, Backends

(* Nothing new is taken or noted: an event that is brought now was not taken yet. *)
LEMMA QuietRepeatsNothing ==
  ASSUME WritersInv, ReplayedAtMostOnce, targets' = targets, taken' = taken, resent' = resent,
         calls' \in Nat
  PROVE  ReplayedAtMostOnce'
<1>1. ASSUME NEW t \in Backends, NEW e \in 1..calls'
      PROVE  Count(taken[t], e) <= IF e \in resent[t] THEN 2 ELSE 1
  <2>1. CASE e \in 1..calls
    BY <2>1 DEF ReplayedAtMostOnce, Copies, Count
  <2>2. CASE e \notin 1..calls
    <3>1. e \notin Range(taken[t]) /\ taken[t] \in Seq(Nat)
      BY <2>2 DEF WritersInv, BatchesApart, WriterTypes
    <3>2. Count(taken[t], e) = 0
      BY <3>1, CountTypes
    <3>. QED  BY <3>2
  <2>. QED  BY <2>1, <2>2
<1>. QED  BY <1>1 DEF ReplayedAtMostOnce, Copies, Count, Backends

(* No backend takes an event more than twice, nor twice unless the write that
   held it failed and was made again after a reconnect. *)
THEOREM RetriedOnce == Spec => []ReplayedAtMostOnce
<1>1. Init => ReplayedAtMostOnce
  BY DEF Init, ReplayedAtMostOnce
<1>2. WritersInv /\ WritersInv' /\ ReplayedAtMostOnce /\ [Next]_vars => ReplayedAtMostOnce'
  <2> SUFFICES ASSUME WritersInv, WritersInv', ReplayedAtMostOnce, [Next]_vars
               PROVE  ReplayedAtMostOnce'
    OBVIOUS
  <2>0. calls' \in Nat
    BY DEF WritersInv, WriterTypes
  <2>1. CASE UNCHANGED vars
    BY <2>0, <2>1, QuietRepeatsNothing DEF vars, history
  <2>2. CASE Close
    BY <2>0, <2>2, QuietRepeatsNothing DEF Close, history
  <2>3. ASSUME NEW w \in Workers, Call(w) PROVE ReplayedAtMostOnce'
    BY <2>0, <2>3, QuietRepeatsNothing DEF Call
  <2>4. ASSUME NEW w \in Workers, WriteBatch(w) PROVE ReplayedAtMostOnce'
    <3>1. \/ Prepares(w) \/ Advances(w) \/ Lock(w) \/ Return(w)
          \/ \E evs : Handles(w, evs)
      BY <2>4, StepKinds DEF WritersInv
    <3>2. CASE Prepares(w) \/ Advances(w)
      BY <2>0, <3>2, QuietRepeatsNothing DEF Prepares, Advances, OnlyMoves
    <3>3. CASE Lock(w) \/ Return(w)
      BY <2>0, <3>3, QuietRepeatsNothing DEF Lock, Return, history
    <3>. QED  BY <3>1, <3>2, <3>3, HandlesRepeatsOnce
  <2>. QED  BY <2>1, <2>2, <2>3, <2>4 DEF Next
<1>. QED  BY <1>1, <1>2, AlwaysWritersInv, PTL DEF Spec

----------------------------------------------------------------------------
(* In which order a backend takes the events of two batches                *)

(* What the holder of the mutex adds follows what it has added before. *)
LEMMA HandlesKeepsTogether ==
  ASSUME WritersInv, FramesStayTogether, NEW w \in Workers, NEW evs, Handles(w, evs)
  PROVE  FramesStayTogether'
<1> DEFINE s == taken[at[w]]
           q == taken'[at[w]]
<1>1. WriterTypes /\ EventsInv(w) /\ FramesOf(w) /\ HoldsMutex(w) /\ BatchesApart
  BY DEF WritersInv, EventsInv
<1>2. /\ targets' = targets /\ frames[w] # <<>> /\ at[w] \in Backends
      /\ \A t \in Backends : t # at[w] => taken'[t] = taken[t]
      /\ \A v \in Workers : Range(batch'[v]) = Mine(v)
  BY <1>1 DEF Handles, OnlyMoves, WriterTypes, Mine
<1>3. s \in Seq(Nat) /\ evs \in Seq(Nat) /\ q = s \o evs /\ Range(evs) \subseteq Mine(w)
  BY <1>1, HandlesTakes
<1>4. /\ \A i \in DOMAIN s : q[i] = s[i]
      /\ \A i \in DOMAIN q \ DOMAIN s : q[i] \in Range(evs)
      /\ DOMAIN s = 1..Len(s) /\ Len(s) \in Nat /\ DOMAIN q \subseteq Nat \ {0}
  <2>1. DOMAIN s = 1..Len(s) /\ Len(s) \in Nat /\ DOMAIN q \subseteq Nat \ {0}
    BY <1>3
  <2>2. \A i \in DOMAIN q \ DOMAIN s : i - Len(s) \in DOMAIN evs /\ q[i] = evs[i - Len(s)]
    BY <1>3, ConcatRange
  <2>3. \A i \in 1..Len(s) : q[i] = s[i]
    BY <1>3, ConcatRange
  <2>. QED  BY <2>1, <2>2, <2>3 DEF Range
<1>5. ASSUME NEW t \in Backends, targets[t] # "serial",
             NEW i \in DOMAIN taken'[t], NEW j \in DOMAIN taken'[t], NEW k \in DOMAIN taken'[t],
             i < j, j < k, NEW v \in Workers, taken'[t][i] \in Mine(v), taken'[t][k] \in Mine(v)
      PROVE  taken'[t][j] \in Mine(v)
  <2>0. \A a, b, c \in DOMAIN taken[t] : \A u \in Workers :
          a < b /\ b < c /\ taken[t][a] \in Mine(u) /\ taken[t][c] \in Mine(u)
            => taken[t][b] \in Mine(u)
    BY <1>5 DEF FramesStayTogether, Mine
  <2>1. CASE t # at[w]
    BY <1>2, <1>5, <2>0, <2>1
  <2>2. CASE t = at[w] /\ k \in DOMAIN s
    <3>1. i \in DOMAIN s /\ j \in DOMAIN s
      BY <1>4, <1>5, <2>2
    <3>. QED  BY <1>4, <1>5, <2>0, <2>2, <3>1
  <2>3. CASE t = at[w] /\ k \notin DOMAIN s
    <3>1. taken'[t][k] \in Mine(w)
      BY <1>3, <1>4, <2>3
    <3>2. v = w
      BY <1>1, <1>5, <3>1 DEF BatchesApart
    <3>3. CASE j \notin DOMAIN s
      BY <1>3, <1>4, <2>3, <3>2, <3>3
    <3>4. CASE j \in DOMAIN s
      <4>1. i \in DOMAIN s /\ j <= Len(s) /\ Len(s) \in DOMAIN s
        BY <1>4, <1>5, <2>3, <3>4
      <4>2. s[i] \in Mine(w)
        BY <1>4, <1>5, <2>3, <3>2, <4>1
      <4>3. Mine(w) \cap Range(s) # {}
        BY <4>1, <4>2 DEF Range
      <4>4. pc[w] # "record"
        BY <1>1, <1>5, <2>3 DEF FramesOf
      <4>5. pc[w] \in Locked
        BY <4>4 DEF Handles, Locked
      <4>6. s[Len(s)] \in Mine(w)
        BY <1>1, <4>3, <4>5 DEF HoldsMutex
      <4>7. s[j] \in Mine(w)
        <5>1. CASE j = Len(s)
          BY <4>6, <5>1
        <5>2. CASE j # Len(s)
          <6>1. j < Len(s)
            BY <1>4, <4>1, <3>4, <5>2
          <6>. QED  BY <1>5, <2>0, <2>3, <3>4, <4>1, <4>2, <4>6, <6>1
        <5>. QED  BY <5>1, <5>2
      <4>. QED  BY <1>4, <2>3, <3>2, <3>4, <4>7
    <3>. QED  BY <3>3, <3>4
  <2>. QED  BY <2>1, <2>2, <2>3
<1>. QED  BY <1>2, <1>5 DEF FramesStayTogether, Backends

(* Nothing is taken, and a batch that is new has nothing taken yet. *)
LEMMA QuietKeepsTogether ==
  ASSUME FramesStayTogether, targets' = targets, taken' = taken,
         \A v \in Workers : \/ Mine(v)' = Mine(v)
                            \/ \A t \in Backends : Mine(v)' \cap Range(taken[t]) = {}
  PROVE  FramesStayTogether'
<1>1. ASSUME NEW t \in Backends, targets[t] # "serial",
             NEW i \in DOMAIN taken[t], NEW j \in DOMAIN taken[t], NEW k \in DOMAIN taken[t],
             i < j, j < k, NEW v \in Workers, taken[t][i] \in Mine(v)', taken[t][k] \in Mine(v)'
      PROVE  taken[t][j] \in Mine(v)'
  <2>1. taken[t][i] \in Range(taken[t])
    BY DEF Range
  <2>2. Mine(v)' = Mine(v)
    BY <1>1, <2>1
  <2>. QED  BY <1>1, <2>2 DEF FramesStayTogether, Mine
<1>. QED  BY <1>1 DEF FramesStayTogether, Backends, Mine

(* On a socket backend, whatever fails and reconnects, what was taken of a batch in
   progress has no event of another batch between: the mutex covers all its writes. *)
THEOREM BatchesAreNotMixed == Spec => []FramesStayTogether
<1>1. Init => FramesStayTogether
  BY DEF Init, FramesStayTogether
<1>2. WritersInv /\ FramesStayTogether /\ [Next]_vars => FramesStayTogether'
  <2> SUFFICES ASSUME WritersInv, FramesStayTogether, [Next]_vars
               PROVE  FramesStayTogether'
    OBVIOUS
  <2>0. ASSUME batch' = batch PROVE \A v \in Workers : Mine(v)' = Mine(v)
    BY <2>0 DEF Mine
  <2>1. CASE UNCHANGED vars
    BY <2>0, <2>1, QuietKeepsTogether DEF vars, callVars, history
  <2>2. CASE Close
    BY <2>0, <2>2, QuietKeepsTogether DEF Close, callVars, history
  <2>3. ASSUME NEW w \in Workers, Call(w) PROVE FramesStayTogether'
    <3>1. targets' = targets /\ taken' = taken
      BY <2>3 DEF Call
    <3>2. \A t \in Backends : Mine(w)' \cap Range(taken[t]) = {}
      BY <2>3, CallBatch DEF WritersInv
    <3>3. \A v \in Workers \ {w} : Mine(v)' = Mine(v)
      BY <2>3, CallIsLocal DEF WritersInv, OnlyMoves, Mine
    <3>. QED  BY <3>1, <3>2, <3>3, QuietKeepsTogether
  <2>4. ASSUME NEW w \in Workers, WriteBatch(w) PROVE FramesStayTogether'
    <3>1. \/ Prepares(w) \/ Advances(w) \/ Lock(w) \/ Return(w)
          \/ \E evs : Handles(w, evs)
      BY <2>4, StepKinds DEF WritersInv
    <3>2. CASE Prepares(w) \/ Advances(w)
      <4>1. targets' = targets /\ taken' = taken /\ \A v \in Workers : Mine(v)' = Mine(v)
        BY <3>2 DEF Prepares, Advances, OnlyMoves, Mine
      <4>. QED  BY <4>1, QuietKeepsTogether
    <3>3. CASE Lock(w)
      BY <2>0, <3>3, QuietKeepsTogether DEF Lock, history
    <3>4. CASE Return(w)
      <4>1. targets' = targets /\ taken' = taken /\ batch' = [batch EXCEPT ![w] = <<>>]
        BY <3>4 DEF Return, history
      <4>2. batch'[w] = <<>> /\ \A v \in Workers \ {w} : batch'[v] = batch[v]
        BY <4>1 DEF WritersInv, WriterTypes
      <4>3. Mine(w)' = {} /\ \A v \in Workers \ {w} : Mine(v)' = Mine(v)
        BY <4>2 DEF Mine, Range
      <4>. QED  BY <4>1, <4>3, QuietKeepsTogether
    <3>. QED  BY <3>1, <3>2, <3>3, <3>4, HandlesKeepsTogether
  <2>. QED  BY <2>1, <2>2, <2>3, <2>4 DEF Next
<1>. QED  BY <1>1, <1>2, AlwaysWritersInv, PTL DEF Spec
=============================================================================
