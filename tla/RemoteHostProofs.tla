------------------------- MODULE RemoteHostProofs --------------------------
(***************************************************************************)
(* What RemoteHost guarantees for any number of calls, faults and a buffer *)
(* of any size: its types; that a call is done twice at most and a room    *)
(* opened once; and that the house takes a room for open only if the       *)
(* being's child has opened it since the two were attached.  After it,     *)
(* what DreamWorker and Media guarantee for any lane and cache, and any    *)
(* seats, posts and files: WorkerKept and MediaKept are the inductive      *)
(* invariants of FilesAreSound.                                            *)
(***************************************************************************)
EXTENDS MCRemote, SequenceTheorems, FiniteSetTheorems, TLAPS

-----------------------------------------------------------------------------
(* The inductive invariant.                                                *)

Messages ==
  [type : {"hello"}, id : {0}, ok : {"ok"}]
  \cup [type : {"child"}, id : {0}, ok : {"starting", "ready", "exited", "failed"}]
  \cup [type : {"incoming"}, id : Nat, ok : {"ok"}]
  \cup [type : {"result"}, id : Ids, ok : {"ok", "failed"}]

Hosts == [state : {"waiting", "starting", "ready", "stopped", "crashed"},
          wire : BOOLEAN, known : BOOLEAN, open : BOOLEAN, opening : {0} \cup Opens]
Waiting == [timer : BOOLEAN, retried : BOOLEAN]
Links == [up : BOOLEAN, closing : BOOLEAN, toHouse : Seq(Messages), toBeing : Seq(Ids)]
Runners == [wasLive : BOOLEAN, buffer : Seq(Messages)]
Children == [state : {"none", "starting", "ready", "crashed"}, open : BOOLEAN, again : BOOLEAN]

HostTyped ==
  /\ host \in Hosts
  /\ DOMAIN pending \subseteq Ids /\ \A id \in DOMAIN pending : pending[id] \in Waiting
  /\ outcome \in [Ids -> Settled \cup {"new", "pending"}]
  /\ heard \in Seq(Nat)
BeingTyped ==
  /\ runner \in Runners /\ child \in Children
  /\ running \in Seq(Ids) /\ runs \in [Ids -> Nat]
  /\ said \in Nat
Typed == HostTyped /\ BeingTyped /\ link \in Links

(* A request is pending exactly while its promise is open, the opening of  *)
(* the room among them; only a first try of a call waits without a timer.  *)
PendingSound ==
  /\ \A id \in Ids : outcome[id] = "pending" <=> id \in DOMAIN pending
  /\ host.opening # 0 => host.opening \in DOMAIN pending
  /\ \A id \in DOMAIN pending : pending[id].retried \/ id \in Opens => pending[id].timer

(* A connection that is down carries no request; when the house has seen   *)
(* its end too, it believes nothing of the being.  A child that is not     *)
(* ready is at work on nothing and has opened nothing.                     *)
LinesSound ==
  /\ ~link.up => link.toBeing = <<>>
  /\ link.closing => ~link.up
  /\ ~link.up /\ ~link.closing => link.toHouse = <<>> /\ ~host.open /\ host.opening = 0
  /\ child.state # "ready" => running = <<>> /\ ~child.open
  /\ Len(runner.buffer) <= Cap

(* How often a request was given to the child, and is on its way to it.    *)
Sent(id) == id \in ToSet(link.toBeing)
Once(id) == id \in Opens \/ (id \in DOMAIN pending /\ ~pending[id].retried)
Within(id) ==
  /\ outcome[id] = "new" => runs[id] = 0 /\ ~Sent(id)
  /\ Once(id) => runs[id] <= 1 /\ (Sent(id) => runs[id] = 0)
  /\ runs[id] <= 2 /\ (Sent(id) => runs[id] <= 1)
SentSound ==
  /\ IsInjective(link.toBeing)
  /\ \A id \in DOMAIN pending : ~pending[id].timer => ~Sent(id)
  /\ \A id \in Ids : Within(id)

(* What comes from the being is of requests that were made; and what says  *)
(* that the room is open was said by the child that has it open.           *)
InFlight == ToSet(link.toHouse) \cup ToSet(runner.buffer)
Opened == link.closing \/ child.again \/ child.open
NewsSound ==
  /\ \A id \in ToSet(running) : outcome[id] # "new"
  /\ \A m \in InFlight : m.type = "result" => outcome[m.id] # "new"
  /\ host.open => Opened
  /\ \A m \in InFlight : m.type = "result" /\ m.ok = "ok" /\ m.id = host.opening => Opened

Inv == Typed /\ PendingSound /\ LinesSound /\ SentSound /\ NewsSound

-----------------------------------------------------------------------------
(* Sequences read as the sets of what is in them.                          *)

(* One more element.                                                       *)
LEMMA Appended ==
  ASSUME NEW S, NEW s \in Seq(S), NEW x \in S
  PROVE  /\ Append(s, x) \in Seq(S) /\ Len(s) \in Nat /\ Len(Append(s, x)) = Len(s) + 1
         /\ \A i \in 1 .. Len(s) : Append(s, x)[i] = s[i]
         /\ Append(s, x)[Len(s) + 1] = x
         /\ ToSet(Append(s, x)) = ToSet(s) \cup {x}
         /\ IsInjective(s) /\ x \notin ToSet(s) => IsInjective(Append(s, x))
<1> DEFINE u == Append(s, x)
<1>1. /\ u \in Seq(S) /\ Len(s) \in Nat /\ Len(u) = Len(s) + 1
      /\ \A i \in 1 .. Len(s) : u[i] = s[i]
      /\ u[Len(s) + 1] = x
  BY AppendProperties, LenProperties
<1>2. DOMAIN s = 1 .. Len(s) /\ DOMAIN u = 1 .. Len(u)
  BY <1>1, LenProperties
<1> HIDE DEF u
<1>3. ToSet(u) = ToSet(s) \cup {x}
  <2>1. \A i \in 1 .. Len(u) : i \in 1 .. Len(s) \/ i = Len(s) + 1
    BY <1>1
  <2>2. \A y : y \in ToSet(u) <=> \E i \in 1 .. Len(u) : u[i] = y
    BY <1>2 DEF ToSet
  <2>3. \A y : y \in ToSet(s) <=> \E i \in 1 .. Len(s) : s[i] = y
    BY <1>2 DEF ToSet
  <2>4. \A y : y \in ToSet(u) => y \in ToSet(s) \cup {x}
    BY <1>1, <2>1, <2>2, <2>3
  <2>5. \A y : y \in ToSet(s) \cup {x} => y \in ToSet(u)
    BY <1>1, <2>2, <2>3
  <2> QED
    BY <2>4, <2>5
<1>4. IsInjective(s) /\ x \notin ToSet(s) => IsInjective(u)
  BY <1>1, <1>2 DEF IsInjective, ToSet
<1> QED
  BY <1>1, <1>3, <1>4 DEF u

(* The first element, and the rest.                                        *)
LEMMA HeadAndTail ==
  ASSUME NEW S, NEW s \in Seq(S), s # <<>>
  PROVE  /\ Tail(s) \in Seq(S) /\ Head(s) \in S /\ Head(s) = s[1] /\ 1 \in 1 .. Len(s)
         /\ Len(s) \in Nat /\ Len(Tail(s)) = Len(s) - 1
         /\ \A i \in 1 .. Len(Tail(s)) : i + 1 \in 1 .. Len(s) /\ Tail(s)[i] = s[i + 1]
         /\ ToSet(s) = ToSet(Tail(s)) \cup {Head(s)}
         /\ IsInjective(s) => IsInjective(Tail(s)) /\ Head(s) \notin ToSet(Tail(s))
<1> DEFINE u == Tail(s)
<1>1. /\ u \in Seq(S) /\ Len(s) \in Nat /\ Len(u) = Len(s) - 1 /\ Len(s) # 0
      /\ \A i \in 1 .. Len(u) : u[i] = s[i + 1]
      /\ Head(s) = s[1] /\ Head(s) \in S
  BY HeadTailProperties, EmptySeq, LenProperties
<1>2. DOMAIN s = 1 .. Len(s) /\ DOMAIN u = 1 .. Len(u)
  BY <1>1, LenProperties
<1> HIDE DEF u
<1>3. \A i \in 1 .. Len(s) : i = 1 \/ (i - 1 \in 1 .. Len(u) /\ u[i - 1] = s[i])
  <2> SUFFICES ASSUME NEW i \in 1 .. Len(s), i # 1
               PROVE  i - 1 \in 1 .. Len(u) /\ u[i - 1] = s[i]
    OBVIOUS
  <2>1. i - 1 \in 1 .. Len(u)
    BY <1>1
  <2>2. u[i - 1] = s[(i - 1) + 1] /\ (i - 1) + 1 = i
    BY <1>1, <2>1
  <2> QED
    BY <2>1, <2>2
<1>4. ToSet(s) = ToSet(u) \cup {Head(s)}
  <2>1. \A y : y \in ToSet(u) <=> \E i \in 1 .. Len(u) : u[i] = y
    BY <1>2 DEF ToSet
  <2>2. \A y : y \in ToSet(s) <=> \E i \in 1 .. Len(s) : s[i] = y
    BY <1>2 DEF ToSet
  <2>3. \A y : y \in ToSet(s) => y \in ToSet(u) \cup {Head(s)}
    BY <1>1, <1>3, <2>1, <2>2
  <2>4. \A y : y \in ToSet(u) \cup {Head(s)} => y \in ToSet(s)
    BY <1>1, <2>1, <2>2
  <2> QED
    BY <2>3, <2>4
<1>5. IsInjective(s) => IsInjective(u) /\ Head(s) \notin ToSet(u)
  <2> SUFFICES ASSUME IsInjective(s) PROVE IsInjective(u) /\ Head(s) \notin ToSet(u)
    OBVIOUS
  <2>1. \A i, k \in 1 .. Len(s) : s[i] = s[k] => i = k
    BY <1>2 DEF IsInjective
  <2>2. \A i, k \in 1 .. Len(u) : u[i] = u[k] => i = k
    <3> SUFFICES ASSUME NEW i \in 1 .. Len(u), NEW k \in 1 .. Len(u), u[i] = u[k] PROVE i = k
      OBVIOUS
    <3>1. i + 1 \in 1 .. Len(s) /\ k + 1 \in 1 .. Len(s) /\ s[i + 1] = s[k + 1]
      BY <1>1
    <3>2. i + 1 = k + 1
      BY <2>1, <3>1
    <3> QED
      BY <3>2
  <2>3. IsInjective(u)
    BY <1>2, <2>2 DEF IsInjective
  <2>4. \A i \in 1 .. Len(u) : u[i] # Head(s)
    <3> SUFFICES ASSUME NEW i \in 1 .. Len(u), s[i + 1] = s[1] PROVE FALSE
      BY <1>1
    <3>1. i + 1 \in 1 .. Len(s) /\ 1 \in 1 .. Len(s) /\ i + 1 # 1
      BY <1>1
    <3> QED
      BY <2>1, <3>1
  <2>5. Head(s) \notin ToSet(u)
    BY <1>2, <2>4 DEF ToSet
  <2> QED
    BY <2>3, <2>5
<1>6. 1 \in 1 .. Len(s) /\ \A i \in 1 .. Len(u) : i + 1 \in 1 .. Len(s)
  BY <1>1
<1> QED
  BY <1>1, <1>4, <1>5, <1>6 DEF u

(* A function on the first numbers is a sequence.                          *)
LEMMA ListIsSequence ==
  ASSUME NEW n \in Nat, NEW S, NEW f \in [1 .. n -> S]
  PROVE  f \in Seq(S) /\ Len(f) = n
OBVIOUS

(* The shortest sequences.                                                 *)
LEMMA Few ==
  ASSUME NEW S, NEW x \in S, NEW y \in S
  PROVE  /\ <<>> \in Seq(S) /\ ToSet(<<>>) = {} /\ IsInjective(<<>>)
         /\ <<x>> \in Seq(S) /\ ToSet(<<x>>) = {x} /\ IsInjective(<<x>>)
         /\ <<x, y>> \in Seq(S) /\ ToSet(<<x, y>>) = {x, y}
BY DEF ToSet, IsInjective

(* Nothing is a sequence of anything.                                      *)
LEMMA Nothing ==
  ASSUME NEW S
  PROVE  <<>> \in Seq(S) /\ ToSet(<<>>) = {}
BY DEF ToSet

(* One sequence behind another.                                            *)
LEMMA Joined ==
  ASSUME NEW S, NEW s \in Seq(S), NEW t \in Seq(S)
  PROVE  /\ s \o t \in Seq(S)
         /\ ToSet(s \o t) = ToSet(s) \cup ToSet(t)
         /\ IsInjective(s) /\ IsInjective(t) /\ ToSet(s) \cap ToSet(t) = {} => IsInjective(s \o t)
<1> DEFINE u == s \o t
           m == Len(s)
           n == Len(t)
<1>1. /\ u \in Seq(S) /\ m \in Nat /\ n \in Nat /\ Len(u) = m + n
      /\ \A i \in 1 .. m + n : u[i] = IF i <= m THEN s[i] ELSE t[i - m]
  BY ConcatProperties, LenProperties
<1>2. DOMAIN s = 1 .. m /\ DOMAIN t = 1 .. n /\ DOMAIN u = 1 .. m + n
  BY <1>1, LenProperties
<1> HIDE DEF u, m, n
<1>3. \A i \in 1 .. m + n : (i \in 1 .. m /\ u[i] = s[i]) \/ (i > m /\ i - m \in 1 .. n /\ u[i] = t[i - m])
  BY <1>1
<1>4. \A i \in 1 .. m : i \in 1 .. m + n /\ u[i] = s[i]
  BY <1>1
<1>5. \A i \in 1 .. n : u[m + i] = t[i] /\ m + i \in 1 .. m + n
  <2> SUFFICES ASSUME NEW i \in 1 .. n PROVE u[m + i] = t[i] /\ m + i \in 1 .. m + n
    OBVIOUS
  <2>1. m + i \in 1 .. m + n /\ ~(m + i <= m) /\ (m + i) - m = i
    BY <1>1
  <2> QED
    BY <1>1, <2>1
<1>6. ToSet(u) = ToSet(s) \cup ToSet(t)
  <2>1. \A y : y \in ToSet(u) => y \in ToSet(s) \cup ToSet(t)
    BY <1>2, <1>3 DEF ToSet
  <2>2. \A y : y \in ToSet(s) \cup ToSet(t) => y \in ToSet(u)
    BY <1>2, <1>4, <1>5 DEF ToSet
  <2> QED
    BY <2>1, <2>2
<1>7. ASSUME IsInjective(s), IsInjective(t), ToSet(s) \cap ToSet(t) = {}
      PROVE  IsInjective(u)
  <2>1. \A i \in 1 .. m, j \in 1 .. n : s[i] # t[j]
    BY <1>2, <1>7 DEF ToSet
  <2> SUFFICES ASSUME NEW i \in 1 .. m + n, NEW j \in 1 .. m + n, u[i] = u[j]
               PROVE  i = j
    BY <1>2 DEF IsInjective
  <2>2. CASE i <= m /\ j <= m
    <3>1. i \in 1 .. m /\ j \in 1 .. m /\ s[i] = s[j]
      BY <1>1, <1>3, <2>2
    <3> QED
      BY <1>2, <1>7, <3>1 DEF IsInjective
  <2>3. CASE i > m /\ j > m
    <3>1. i - m \in 1 .. n /\ j - m \in 1 .. n /\ t[i - m] = t[j - m]
      BY <1>1, <1>3, <2>3
    <3>2. i - m = j - m
      BY <1>2, <1>7, <3>1 DEF IsInjective
    <3> QED
      BY <1>1, <3>2
  <2> QED
    BY <1>1, <1>3, <2>1, <2>2, <2>3
<1> QED
  BY <1>1, <1>6, <1>7 DEF u

(* The last of a sequence, as many as there is room for.                   *)
LEMMA LastOf ==
  ASSUME NEW S, NEW s \in Seq(S), NEW n \in Nat, Len(s) > n
  PROVE  LET u == SubSeq(s, Len(s) - n + 1, Len(s)) IN
         u \in Seq(S) /\ Len(u) = n /\ ToSet(u) \subseteq ToSet(s)
<1> DEFINE a == Len(s) - n + 1
           u == SubSeq(s, a, Len(s))
<1>1. Len(s) \in Nat /\ DOMAIN s = 1 .. Len(s) /\ \A i \in 1 .. Len(s) : s[i] \in S
  BY LenProperties
<1>2. a \in Int /\ Len(s) \in Int /\ a >= 1 /\ a <= Len(s) + 1 /\ Len(s) - a + 1 = n
  BY <1>1
<1> HIDE DEF a
<1>3. \A i \in a .. Len(s) : s[i] \in S
  BY <1>1, <1>2
<1>4. /\ u \in Seq(S) /\ Len(u) = IF a <= Len(s) THEN Len(s) - a + 1 ELSE 0
      /\ \A i \in 1 .. Len(s) - a + 1 : u[i] = s[a + i - 1]
  BY <1>2, <1>3, SubSeqProperties
<1> HIDE DEF u
<1>5. Len(u) = n
  BY <1>2, <1>4
<1>6. DOMAIN u = 1 .. n
  BY <1>4, <1>5, LenProperties
<1>7. \A i \in 1 .. n : a + i - 1 \in 1 .. Len(s) /\ u[i] = s[a + i - 1]
  BY <1>1, <1>2, <1>4
<1>8. ToSet(u) \subseteq ToSet(s)
  BY <1>1, <1>6, <1>7 DEF ToSet
<1> QED
  BY <1>4, <1>5, <1>8 DEF u, a

(* What is left when one element is taken out of the middle.               *)
LEMMA LeftOver ==
  ASSUME NEW S, NEW s \in Seq(S), NEW k \in 1 .. Len(s)
  PROVE  RemoveAt(s, k) \in Seq(S) /\ ToSet(RemoveAt(s, k)) \subseteq ToSet(s)
<1> DEFINE a == SubSeq(s, 1, k - 1)
           b == SubSeq(s, k + 1, Len(s))
<1>1. Len(s) \in Nat /\ DOMAIN s = 1 .. Len(s) /\ \A i \in 1 .. Len(s) : s[i] \in S
  BY LenProperties
<1>2. a \in Seq(S) /\ Len(a) = k - 1 /\ \A i \in 1 .. k - 1 : a[i] = s[i]
  BY <1>1, SubSeqProperties
<1>3. k + 1 \in Int /\ Len(s) \in Int /\ \A i \in k + 1 .. Len(s) : s[i] \in S
  BY <1>1
<1>4. /\ b \in Seq(S) /\ Len(b) = IF k + 1 <= Len(s) THEN Len(s) - (k + 1) + 1 ELSE 0
      /\ \A i \in 1 .. Len(s) - (k + 1) + 1 : b[i] = s[(k + 1) + i - 1]
  BY <1>3, SubSeqProperties
<1> HIDE DEF a, b
<1>5. DOMAIN a = 1 .. Len(a) /\ DOMAIN b = 1 .. Len(b)
  BY <1>2, <1>4, LenProperties
<1>6. ToSet(a) \subseteq ToSet(s)
  <2>1. \A i \in 1 .. k - 1 : i \in 1 .. Len(s)
    BY <1>1
  <2> QED
    BY <1>1, <1>2, <1>5, <2>1 DEF ToSet
<1>7. ToSet(b) \subseteq ToSet(s)
  <2>1. ASSUME NEW i \in 1 .. Len(b)
        PROVE  i \in 1 .. Len(s) - (k + 1) + 1 /\ (k + 1) + i - 1 \in 1 .. Len(s)
    <3> DEFINE n == Len(s)
               l == Len(b)
    <3>0. n \in Nat /\ k \in 1 .. n /\ l = (IF k + 1 <= n THEN n - (k + 1) + 1 ELSE 0) /\ i \in 1 .. l
      BY <1>1, <1>4
    <3> HIDE DEF n, l
    <3>1. k + 1 <= n /\ l = n - (k + 1) + 1
      BY <3>0
    <3>2. i \in 1 .. n - (k + 1) + 1 /\ (k + 1) + i - 1 \in 1 .. n
      BY <3>0, <3>1
    <3> QED
      BY <3>2 DEF n
  <2> QED
    BY <1>1, <1>4, <1>5, <2>1 DEF ToSet
<1>8. a \o b \in Seq(S) /\ ToSet(a \o b) \subseteq ToSet(s)
  BY <1>2, <1>4, <1>6, <1>7, Joined
<1>9. RemoveAt(s, k) = a \o b
  BY DEF RemoveAt, a, b
<1> QED
  BY <1>8, <1>9

(* A non-empty set of numbers has a least one.                             *)
LEMMA Least ==
  ASSUME NEW T, T \subseteq Nat, T # {}
  PROVE  \E n \in T : \A m \in T : n <= m
<1>1. IsWellFoundedOn(OpToRel(<, Nat), Nat)
  BY NatLessThanWellFounded
<1>2. PICK n \in T : \A m \in T : ~(<<m, n>> \in OpToRel(<, Nat))
  BY <1>1, WFMin
<1>3. \A m \in T : m < n => <<m, n>> \in OpToRel(<, Nat)
  BY DEF OpToRel
<1>4. \A m \in T : ~(m < n)
  BY <1>2, <1>3, Zenon
<1> QED
  BY <1>4

-----------------------------------------------------------------------------
(* What goes over the connection.                                          *)

(* The messages that the being's side writes.                              *)
LEMMA Told ==
  /\ Hello \in Messages /\ Starting \in Messages
  /\ \A how \in {"starting", "ready", "exited", "failed"} : Msg("child", 0, how) \in Messages
  /\ \A n \in Nat : Msg("incoming", n, "ok") \in Messages
  /\ \A id \in Ids, ok \in {"ok", "failed"} : Msg("result", id, ok) \in Messages
  /\ \A type, id, ok : Msg(type, id, ok).type = type /\ Msg(type, id, ok).id = id /\ Msg(type, id, ok).ok = ok
BY DEF Messages, Msg, Hello, Starting

(* What a message of each kind holds.                                      *)
LEMMA Kinds ==
  ASSUME NEW m \in Messages
  PROVE  /\ m.type = "child" => m.ok \in {"starting", "ready", "exited", "failed"}
         /\ m.type = "incoming" => m.id \in Nat
         /\ m.type = "result" => m.id \in Ids /\ m.ok \in {"ok", "failed"}
BY DEF Messages

(* Requests have positive numbers.                                         *)
LEMMA Numbers ==
  /\ Ids \subseteq Nat /\ 0 \notin Ids /\ Opens \subseteq Ids
  /\ \A id \in Ids : id \in 1 .. MaxCalls <=> id \notin Opens
BY BoundsAreNumbers DEF Ids, Opens

(* The parts of the connection, the runner and the child.                  *)
LEMMA Fields ==
  ASSUME Typed
  PROVE  /\ link.up \in BOOLEAN /\ link.closing \in BOOLEAN
         /\ link.toHouse \in Seq(Messages) /\ link.toBeing \in Seq(Ids)
         /\ runner.wasLive \in BOOLEAN /\ runner.buffer \in Seq(Messages)
         /\ child.open \in BOOLEAN /\ child.again \in BOOLEAN
         /\ host.open \in BOOLEAN /\ host.opening \in {0} \cup Opens
BY DEF Typed, HostTyped, BeingTyped, Links, Runners, Children, Hosts

(* The buffer takes what there is room for.                                *)
LEMMA BufferedIs ==
  ASSUME NEW b \in Seq(Messages), NEW ms \in Seq(Messages)
  PROVE  /\ Buffered(b, ms) \in Seq(Messages) /\ Len(Buffered(b, ms)) <= Cap
         /\ ToSet(Buffered(b, ms)) \subseteq ToSet(b) \cup ToSet(ms)
<1> DEFINE all == b \o ms
<1>1. all \in Seq(Messages) /\ ToSet(all) = ToSet(b) \cup ToSet(ms) /\ Len(all) \in Nat
  BY Joined, LenProperties
<1> HIDE DEF all
<1>2. CASE Len(all) > Cap
  <2>1. LET u == SubSeq(all, Len(all) - Cap + 1, Len(all)) IN
        u \in Seq(Messages) /\ Len(u) = Cap /\ ToSet(u) \subseteq ToSet(all)
    BY <1>1, <1>2, LastOf, BoundsAreNumbers
  <2>2. Buffered(b, ms) = SubSeq(all, Len(all) - Cap + 1, Len(all))
    BY <1>2 DEF Buffered, all
  <2> QED
    BY <1>1, <2>1, <2>2, BoundsAreNumbers
<1>3. CASE ~(Len(all) > Cap)
  <2>1. Buffered(b, ms) = all
    BY <1>3 DEF Buffered, all
  <2> QED
    BY <1>1, <1>3, <2>1, BoundsAreNumbers
<1> QED
  BY <1>2, <1>3

(* What is emitted is on its way, or waits.                                *)
LEMMA WhatIsEmitted ==
  ASSUME Typed, LinesSound, NEW ms \in Seq(Messages), Emits(ms)
  PROVE  /\ link' \in Links /\ runner' \in Runners
         /\ link'.up = link.up /\ link'.closing = link.closing /\ link'.toBeing = link.toBeing
         /\ ~link.up => link'.toHouse = link.toHouse
         /\ Len(runner'.buffer) <= Cap
         /\ InFlight' \subseteq InFlight \cup ToSet(ms)
<1>1. link \in Links /\ runner \in Runners /\ Len(runner.buffer) <= Cap
  BY DEF Typed, BeingTyped, LinesSound
<1>2. CASE link.up
  <2> DEFINE more == link.toHouse \o ms
  <2>1. more \in Seq(Messages) /\ ToSet(more) = ToSet(link.toHouse) \cup ToSet(ms)
    BY Fields, Joined
  <2>2. link' = [link EXCEPT !.toHouse = more] /\ runner' = runner
    BY <1>2 DEF Emits
  <2> HIDE DEF more
  <2>3. /\ link'.toHouse = more /\ link'.up = link.up /\ link'.closing = link.closing
        /\ link'.toBeing = link.toBeing /\ link' \in Links
    BY <1>1, <2>1, <2>2 DEF Links
  <2> QED
    BY <1>1, <1>2, <2>1, <2>2, <2>3 DEF InFlight
<1>3. CASE ~link.up
  <2> DEFINE more == Buffered(runner.buffer, ms)
  <2>1. more \in Seq(Messages) /\ Len(more) <= Cap /\ ToSet(more) \subseteq ToSet(runner.buffer) \cup ToSet(ms)
    BY Fields, BufferedIs
  <2>2. runner' = [runner EXCEPT !.buffer = more] /\ link' = link
    BY <1>3 DEF Emits
  <2> HIDE DEF more
  <2>3. runner'.buffer = more /\ runner' \in Runners
    BY <1>1, <2>1, <2>2 DEF Runners
  <2> QED
    BY <1>1, <1>3, <2>1, <2>2, <2>3 DEF InFlight
<1> QED
  BY <1>2, <1>3

-----------------------------------------------------------------------------
(* The being's side leaves the house's requests alone.                     *)

(* A step that is no request's: what is pending and sent stays in keeping. *)
LEMMA RequestsStay ==
  ASSUME Inv, UNCHANGED <<host, pending, outcome, runs>>,
         link'.toBeing = link.toBeing \/ link'.toBeing = <<>>
  PROVE  PendingSound' /\ SentSound'
<1>1. PendingSound'
  BY DEF Inv, PendingSound
<1>2. IsInjective(<<>>) /\ ToSet(<<>>) = {}
  BY DEF IsInjective, ToSet
<1>3. \A id : Sent(id)' => Sent(id)
  BY <1>2 DEF Sent
<1>4. IsInjective(link'.toBeing)
  BY <1>2 DEF Inv, SentSound
<1>5. \A id \in DOMAIN pending : ~pending[id].timer => ~Sent(id)'
  BY <1>3 DEF Inv, SentSound
<1>6. ASSUME NEW id \in Ids PROVE Within(id)'
  <2>1. Within(id)
    BY DEF Inv, SentSound
  <2>2. Once(id)' <=> Once(id)
    BY DEF Once
  <2> QED
    BY <1>3, <2>1, <2>2 DEF Within
<1> QED
  BY <1>1, <1>4, <1>5, <1>6 DEF SentSound

(* The child or its runner says something.                                 *)
LEMMA BeingSpeaks ==
  ASSUME Inv, NEW ms \in Seq(Messages), Emits(ms),
         UNCHANGED <<host, pending, outcome, runs, heard>>,
         child' \in Children, said' \in Nat,
         running' \in Seq(Ids), ToSet(running') \subseteq ToSet(running),
         child'.state # "ready" => running' = <<>> /\ ~child'.open,
         child.again \/ child.open => child'.again \/ child'.open,
         \A m \in ToSet(ms) : m.type = "result" =>
           /\ outcome[m.id] # "new"
           /\ m.ok = "ok" /\ m.id = host.opening => child'.again \/ child'.open
  PROVE  Inv'
<1>1. /\ link' \in Links /\ runner' \in Runners
      /\ link'.up = link.up /\ link'.closing = link.closing /\ link'.toBeing = link.toBeing
      /\ ~link.up => link'.toHouse = link.toHouse
      /\ Len(runner'.buffer) <= Cap
      /\ InFlight' \subseteq InFlight \cup ToSet(ms)
  BY WhatIsEmitted DEF Inv
<1>2. Typed'
  BY <1>1 DEF Inv, Typed, HostTyped, BeingTyped
<1>3. PendingSound' /\ SentSound'
  BY <1>1, RequestsStay
<1>4. LinesSound'
  BY <1>1 DEF Inv, LinesSound
<1>5. Opened => Opened'
  BY <1>1 DEF Opened
<1>6. child'.again \/ child'.open => Opened'
  BY DEF Opened
<1>7. NewsSound'
  <2>1. \A id \in ToSet(running') : outcome'[id] # "new"
    BY DEF Inv, NewsSound
  <2>2. \A m \in InFlight' : m.type = "result" => outcome'[m.id] # "new"
    BY <1>1 DEF Inv, NewsSound
  <2>3. host'.open => Opened'
    BY <1>5 DEF Inv, NewsSound
  <2>4. \A m \in InFlight' : m.type = "result" /\ m.ok = "ok" /\ m.id = host'.opening => Opened'
    BY <1>1, <1>5, <1>6 DEF Inv, NewsSound
  <2> QED
    BY <2>1, <2>2, <2>3, <2>4 DEF NewsSound
<1> QED
  BY <1>2, <1>3, <1>4, <1>7 DEF Inv

(* The child is ready, for the first time or again.                        *)
LEMMA ChildReadyKeeps ==
  ASSUME Inv, ChildReady
  PROVE  Inv'
<1> DEFINE ready == Msg("child", 0, "ready")
<1>1. ready \in Messages /\ ready.type = "child" /\ Hello \in Messages /\ Hello.type = "hello"
  BY Told DEF Hello
<1>2. child \in Children /\ child.state \in {"starting", "crashed"} /\ ~child.open
  BY DEF ChildReady, Inv, Typed, BeingTyped, LinesSound
<1>3. child' \in Children /\ child'.state = "ready" /\ child'.again = child.again
  BY <1>2 DEF ChildReady, Children
<1>4. PICK ms \in {<<ready>>, <<ready, Hello>>} : Emits(ms)
  BY DEF ChildReady
<1> HIDE DEF ready
<1>5. ms \in Seq(Messages) /\ ToSet(ms) \subseteq {ready, Hello}
  <2> DEFINE one == <<ready>>
             two == <<ready, Hello>>
  <2>1. one \in Seq(Messages) /\ ToSet(one) = {ready} /\ two \in Seq(Messages) /\ ToSet(two) = {ready, Hello}
    BY <1>1, Few
  <2>2. ms = one \/ ms = two
    BY <1>4
  <2> HIDE DEF one, two
  <2> QED
    BY <2>1, <2>2
<1>6. \A m \in ToSet(ms) : m.type # "result"
  BY <1>1, <1>5
<1>7. UNCHANGED <<host, pending, outcome, running, runs, said, heard>>
  BY DEF ChildReady
<1>8. said' \in Nat /\ running' \in Seq(Ids) /\ ToSet(running') \subseteq ToSet(running)
  BY <1>7 DEF Inv, Typed, BeingTyped
<1> QED
  BY <1>2, <1>3, <1>4, <1>5, <1>6, <1>7, <1>8, BeingSpeaks

(* The child is gone, and the calls it was at work on fail.                *)
LEMMA ChildExitsKeeps ==
  ASSUME Inv, ChildExits
  PROVE  Inv'
<1> DEFINE n == Len(running)
           failed == [k \in DOMAIN running |-> Msg("result", running[k], "failed")]
<1>1. n \in Nat /\ DOMAIN running = 1 .. n /\ \A k \in 1 .. n : running[k] \in Ids
  BY LenProperties DEF Inv, Typed, BeingTyped
<1>2. failed \in [1 .. n -> Messages]
  BY <1>1, Told
<1>3. failed \in Seq(Messages) /\ Len(failed) = n
  <2> HIDE DEF failed, n
  <2> QED
    BY <1>1, <1>2, ListIsSequence
<1>4. ASSUME NEW m \in ToSet(failed)
      PROVE  outcome[m.id] # "new" /\ m.ok # "ok"
  <2>1. PICK k \in 1 .. n : m = Msg("result", running[k], "failed")
    BY <1>1 DEF ToSet
  <2>2. m.id = running[k] /\ m.ok = "failed" /\ running[k] \in ToSet(running)
    BY <1>1, <2>1 DEF Msg, ToSet
  <2> QED
    BY <2>2 DEF Inv, NewsSound
<1>5. PICK how \in {"exited", "failed"} : Emits(<<Msg("child", 0, how)>> \o failed)
  BY DEF ChildExits
<1> HIDE DEF failed, n
<1> DEFINE exit == Msg("child", 0, how)
           ms == <<exit>> \o failed
<1>6. exit \in Messages /\ exit.type = "child"
  BY Told
<1> HIDE DEF exit
<1>7. <<exit>> \in Seq(Messages) /\ ToSet(<<exit>>) = {exit}
  BY <1>6, Few
<1>8. ms \in Seq(Messages) /\ ToSet(ms) = {exit} \cup ToSet(failed)
  <2> DEFINE one == <<exit>>
  <2>1. one \in Seq(Messages) /\ ToSet(one) = {exit} /\ ms = one \o failed
    BY <1>7
  <2> HIDE DEF one, ms
  <2> QED
    BY <1>3, <2>1, Joined
<1>9. \A m \in ToSet(ms) : m.type = "result" => outcome[m.id] # "new" /\ m.ok # "ok"
  BY <1>4, <1>6, <1>8
<1>10. Emits(ms)
  BY <1>5 DEF exit
<1> HIDE DEF ms
<1>11. /\ child' = [state |-> "crashed", open |-> FALSE, again |-> TRUE] /\ running' = <<>>
       /\ UNCHANGED <<host, pending, outcome, runs, said, heard>>
  BY DEF ChildExits
<1>12. child' \in Children /\ child'.again /\ ~child'.open
  BY <1>11 DEF Children
<1>13. running' \in Seq(Ids) /\ ToSet(running') = {}
  BY <1>11 DEF ToSet
<1>14. said' \in Nat
  BY <1>11 DEF Inv, Typed, BeingTyped
<1> QED
  BY <1>8, <1>9, <1>10, <1>11, <1>12, <1>13, <1>14, BeingSpeaks

(* A message of the platform.                                              *)
LEMMA IncomingKeeps ==
  ASSUME Inv, Incoming
  PROVE  Inv'
<1> DEFINE m == Msg("incoming", said + 1, "ok")
<1>1. said \in Nat /\ said' = said + 1 /\ said + 1 \in Nat
  BY DEF Inv, Typed, BeingTyped, Incoming
<1>2. m \in Messages /\ m.type = "incoming"
  BY <1>1, Told
<1>3. Emits(<<m>>) /\ UNCHANGED <<host, pending, outcome, child, running, runs, heard>>
  BY DEF Incoming
<1> HIDE DEF m
<1>4. <<m>> \in Seq(Messages) /\ ToSet(<<m>>) = {m}
  BY <1>2, Few
<1>5. /\ child' \in Children /\ running' \in Seq(Ids) /\ ToSet(running') \subseteq ToSet(running)
      /\ child'.state # "ready" => running' = <<>> /\ ~child'.open
  BY <1>3 DEF Inv, Typed, BeingTyped, LinesSound
<1> QED
  BY <1>1, <1>2, <1>3, <1>4, <1>5, BeingSpeaks

(* The child has done what it was asked; opening the room opens it.        *)
LEMMA ChildAnswersKeeps ==
  ASSUME Inv, NEW k \in DOMAIN running, ChildAnswers(k)
  PROVE  Inv'
<1> DEFINE id == running[k]
           m == Msg("result", id, "ok")
<1>1. running \in Seq(Ids) /\ DOMAIN running = 1 .. Len(running)
  BY LenProperties DEF Inv, Typed, BeingTyped
<1>2. id \in Ids /\ id \in ToSet(running) /\ running # <<>>
  BY <1>1 DEF ToSet
<1>3. outcome[id] # "new" /\ child.state = "ready" /\ child \in Children
  BY <1>2 DEF Inv, NewsSound, LinesSound, Typed, BeingTyped
<1>4. m \in Messages /\ m.type = "result" /\ m.id = id
  BY <1>2, Told
<1>5. RemoveAt(running, k) \in Seq(Ids) /\ ToSet(RemoveAt(running, k)) \subseteq ToSet(running)
  BY <1>1, LeftOver
<1>6. /\ running' = RemoveAt(running, k) /\ Emits(<<m>>)
      /\ child' = IF id \in Opens THEN [child EXCEPT !.open = TRUE, !.again = FALSE] ELSE child
      /\ UNCHANGED <<host, pending, outcome, runs, said, heard>>
  BY DEF ChildAnswers
<1> HIDE DEF id, m
<1>7. <<m>> \in Seq(Messages) /\ ToSet(<<m>>) = {m}
  BY <1>4, Few
<1>8. /\ child' \in Children /\ child'.state = "ready"
      /\ child.again \/ child.open => child'.again \/ child'.open
      /\ id \in Opens => child'.open
  BY <1>3, <1>6 DEF Children
<1>9. id = host.opening => id \in Opens
  BY <1>2, Numbers, Fields DEF Inv
<1>10. said' \in Nat
  BY <1>6 DEF Inv, Typed, BeingTyped
<1> QED
  BY <1>3, <1>4, <1>5, <1>6, <1>7, <1>8, <1>9, <1>10, BeingSpeaks

(* The being takes a request from the connection.                          *)
LEMMA BeingReadsKeeps ==
  ASSUME Inv, BeingReads
  PROVE  Inv'
<1> DEFINE id == Head(link.toBeing)
           rest == Tail(link.toBeing)
           no == Msg("result", id, "failed")
<1>1. link \in Links /\ link.toBeing \in Seq(Ids) /\ link.toBeing # <<>> /\ link.up
  BY Fields DEF Inv, Typed, BeingReads
<1>2. /\ rest \in Seq(Ids) /\ id \in Ids /\ ToSet(link.toBeing) = ToSet(rest) \cup {id}
      /\ IsInjective(rest) /\ id \notin ToSet(rest)
  BY <1>1, HeadAndTail DEF Inv, SentSound
<1>3. no \in Messages /\ no.id = id /\ no.ok = "failed" /\ no.type = "result"
  BY <1>2, Told
<1>4. Sent(id) /\ Within(id) /\ outcome[id] # "new"
  BY <1>2 DEF Sent, Inv, SentSound, Within
<1>5. UNCHANGED <<host, pending, outcome, runner, child, said, heard>>
  BY DEF BeingReads
<1>6. /\ running' \in Seq(Ids) /\ ToSet(running') \subseteq ToSet(running) \cup {id}
      /\ child.state # "ready" => running' = <<>>
      /\ runs' = [runs EXCEPT ![id] = @ + 1] \/ runs' = runs
      /\ link'.toBeing = rest /\ link' \in Links /\ link'.up /\ ~link'.closing
      /\ ToSet(link'.toHouse) \subseteq ToSet(link.toHouse) \cup {no}
  <2>1. running \in Seq(Ids) /\ ~link.closing /\ (child.state # "ready" => running = <<>>)
    BY <1>1 DEF Inv, Typed, BeingTyped, LinesSound
  <2>2. CASE child.state = "ready"
    <3>1. /\ running' = Append(running, id) /\ runs' = [runs EXCEPT ![id] = @ + 1]
          /\ link' = [link EXCEPT !.toBeing = rest]
      BY <2>2 DEF BeingReads
    <3>2. running' \in Seq(Ids) /\ ToSet(running') = ToSet(running) \cup {id}
      BY <1>2, <2>1, <3>1, Appended
    <3>3. link'.toBeing = rest /\ link' \in Links /\ link'.up /\ ~link'.closing /\ link'.toHouse = link.toHouse
      BY <1>1, <1>2, <2>1, <3>1 DEF Links
    <3> QED
      BY <2>2, <3>1, <3>2, <3>3
  <2>3. CASE child.state # "ready"
    <3>1. /\ link' = [link EXCEPT !.toBeing = rest, !.toHouse = Append(@, no)]
          /\ running' = running /\ runs' = runs
      BY <2>3 DEF BeingReads
    <3>2. /\ Append(link.toHouse, no) \in Seq(Messages)
          /\ ToSet(Append(link.toHouse, no)) = ToSet(link.toHouse) \cup {no}
      BY <1>3, Fields, Appended DEF Inv
    <3>3. /\ link'.toBeing = rest /\ link' \in Links /\ link'.up /\ ~link'.closing
          /\ link'.toHouse = Append(link.toHouse, no)
      <4> HIDE DEF no, rest
      <4> QED
        BY <1>1, <1>2, <2>1, <3>1, <3>2 DEF Links
    <3> QED
      BY <2>1, <2>3, <3>1, <3>2, <3>3
  <2> QED
    BY <2>2, <2>3
<1> HIDE DEF id, rest, no
<1>7. runs \in [Ids -> Nat] /\ runs' \in [Ids -> Nat] /\ runs'[id] <= runs[id] + 1
  BY <1>2, <1>6 DEF Inv, Typed, BeingTyped
<1>8. \A j \in Ids : j # id => runs'[j] = runs[j]
  BY <1>6, <1>7
<1>9. Typed'
  BY <1>5, <1>6, <1>7 DEF Inv, Typed, HostTyped, BeingTyped
<1>10. PendingSound' /\ LinesSound'
  BY <1>5, <1>6 DEF Inv, PendingSound, LinesSound
<1>11. \A j : Sent(j)' => Sent(j) /\ j # id
  BY <1>2, <1>6 DEF Sent
<1>12. SentSound'
  <2>1. ASSUME NEW j \in Ids PROVE Within(j)'
    <3>1. Within(j) /\ (Once(j)' <=> Once(j)) /\ outcome'[j] = outcome[j]
      BY <1>5 DEF Inv, SentSound, Once
    <3>2. CASE j # id
      BY <1>8, <1>11, <3>1, <3>2 DEF Within
    <3>3. CASE j = id
      <4>1. ~Sent(j)' /\ outcome[j] # "new" /\ Sent(j)
        BY <1>4, <1>11, <3>3
      <4>2. runs'[j] <= runs[j] + 1 /\ runs[j] \in Nat /\ runs'[j] \in Nat
        BY <1>7, <3>3
      <4>3. runs'[j] <= 2 /\ (Once(j) => runs'[j] <= 1)
        BY <3>1, <4>1, <4>2 DEF Within
      <4> QED
        BY <3>1, <4>1, <4>3 DEF Within
    <3> QED
      BY <3>2, <3>3
  <2>2. \A j \in DOMAIN pending' : ~pending'[j].timer => ~Sent(j)'
    BY <1>5, <1>11 DEF Inv, SentSound
  <2> QED
    BY <1>2, <1>6, <2>1, <2>2 DEF SentSound
<1>13. NewsSound'
  <2>1. InFlight' \subseteq InFlight \cup {no}
    BY <1>5, <1>6 DEF InFlight
  <2>2. Opened => Opened'
    BY <1>1, <1>5 DEF Opened, Inv, LinesSound
  <2>3. \A j \in ToSet(running') : outcome'[j] # "new"
    BY <1>4, <1>5, <1>6 DEF Inv, NewsSound
  <2>4. \A m \in InFlight' : m.type = "result" => outcome'[m.id] # "new"
    BY <1>3, <1>4, <1>5, <2>1 DEF Inv, NewsSound
  <2>5. host'.open => Opened'
    BY <1>5, <2>2 DEF Inv, NewsSound
  <2>6. \A m \in InFlight' : m.type = "result" /\ m.ok = "ok" /\ m.id = host'.opening => Opened'
    BY <1>3, <1>5, <2>1, <2>2 DEF Inv, NewsSound
  <2> QED
    BY <2>3, <2>4, <2>5, <2>6 DEF NewsSound
<1> QED
  BY <1>9, <1>10, <1>12, <1>13 DEF Inv

-----------------------------------------------------------------------------
(* The connection.                                                         *)

(* A connection that changes hands over nothing that was not on its way.   *)
LEMMA LineChanges ==
  ASSUME Inv, UNCHANGED <<host, pending, outcome, runs, said, heard>>,
         link' \in Links, runner' \in Runners, child' \in Children,
         running' = running \/ running' = <<>>,
         link'.toBeing = link.toBeing \/ link'.toBeing = <<>>,
         LinesSound',
         \A m \in InFlight' : m \in InFlight \/ m.type # "result",
         (Opened => Opened') \/ (~host.open /\ host.opening = 0)
  PROVE  Inv'
<1>1. running' \in Seq(Ids) /\ ToSet(running') \subseteq ToSet(running)
  <2>1. CASE running' = <<>>
    BY <2>1, Nothing
  <2>2. CASE running' = running
    BY <2>2 DEF Inv, Typed, BeingTyped
  <2> QED
    BY <2>1, <2>2
<1>2. Typed'
  BY <1>1 DEF Inv, Typed, HostTyped, BeingTyped
<1>3. PendingSound' /\ SentSound'
  BY RequestsStay
<1>4. NewsSound'
  <2>1. \A id \in ToSet(running') : outcome'[id] # "new"
    BY <1>1 DEF Inv, NewsSound
  <2>2. \A m \in InFlight' : m.type = "result" => outcome'[m.id] # "new"
    BY DEF Inv, NewsSound
  <2>3. host'.open => Opened'
    BY DEF Inv, NewsSound
  <2>4. ASSUME NEW m \in InFlight', m.type = "result", m.ok = "ok", m.id = host'.opening
        PROVE  Opened'
    <3>1. m \in InFlight
      BY <2>4
    <3>2. m \in Messages
      BY <3>1, Fields DEF InFlight, ToSet, Inv
    <3>3. m.id # 0
      BY <2>4, <3>2, Kinds, Numbers
    <3> QED
      BY <2>4, <3>1, <3>3 DEF Inv, NewsSound
  <2> QED
    BY <2>1, <2>2, <2>3, <2>4 DEF NewsSound
<1> QED
  BY <1>2, <1>3, <1>4 DEF Inv

(* The runner sees that its connection went, or is back.                   *)
LEMMA PollKeeps ==
  ASSUME Inv, Poll
  PROVE  Inv'
<1>1. /\ link \in Links /\ runner \in Runners /\ child \in Children
      /\ UNCHANGED <<host, pending, outcome, child, running, runs, said, heard>>
  BY DEF Inv, Typed, BeingTyped, Poll
<1>2. CASE link.up
  <2> DEFINE hello == IF child.state = "ready" THEN <<Hello>> ELSE <<>>
             first == link.toHouse \o hello
             all == first \o runner.buffer
  <2>1. hello \in Seq(Messages) /\ ToSet(hello) \subseteq {Hello}
    BY Told, Few
  <2>2. link' = [link EXCEPT !.toHouse = all] /\ runner' = [wasLive |-> TRUE, buffer |-> <<>>]
    BY <1>2 DEF Poll
  <2>3. first \in Seq(Messages) /\ ToSet(first) \subseteq ToSet(link.toHouse) \cup {Hello}
    <3> HIDE DEF hello
    <3> QED
      BY <2>1, Fields, Joined DEF Inv
  <2> HIDE DEF first
  <2>4. all \in Seq(Messages) /\ ToSet(all) = ToSet(first) \cup ToSet(runner.buffer)
    BY <2>3, Fields, Joined DEF Inv
  <2> HIDE DEF all
  <2>5. /\ link' \in Links /\ link'.toHouse = all /\ link'.up /\ ~link'.closing
        /\ link'.toBeing = link.toBeing /\ link'.closing = link.closing
    BY <1>1, <1>2, <2>2, <2>4 DEF Links, Inv, LinesSound
  <2>6. /\ runner' \in Runners /\ runner'.buffer = <<>> /\ Len(runner'.buffer) <= Cap
        /\ ToSet(runner'.buffer) = {}
    BY <2>2, BoundsAreNumbers DEF Runners, ToSet
  <2>7. \A m \in InFlight' : m \in InFlight \/ m.type # "result"
    <3>1. InFlight' \subseteq InFlight \cup {Hello}
      BY <2>3, <2>4, <2>5, <2>6 DEF InFlight
    <3> QED
      BY <3>1, Told DEF Hello
  <2>8. LinesSound'
    BY <1>1, <2>5, <2>6 DEF Inv, LinesSound
  <2>9. Opened => Opened'
    BY <1>1, <2>5 DEF Opened
  <2> QED
    BY <1>1, <2>5, <2>6, <2>7, <2>8, <2>9, LineChanges
<1>3. CASE ~link.up
  <2>1. runner' = [runner EXCEPT !.wasLive = FALSE] /\ link' = link
    BY <1>3 DEF Poll
  <2>2. runner' \in Runners /\ runner'.buffer = runner.buffer
    BY <1>1, <2>1 DEF Runners
  <2>3. InFlight' = InFlight /\ (Opened => Opened') /\ LinesSound'
    BY <1>1, <2>1, <2>2 DEF InFlight, Opened, Inv, LinesSound
  <2> QED
    BY <1>1, <2>1, <2>2, <2>3, LineChanges
<1> QED
  BY <1>2, <1>3

(* The connection breaks.                                                  *)
LEMMA DropKeeps ==
  ASSUME Inv, Drop
  PROVE  Inv'
<1>1. PICK left \in {<<>>, link.toHouse} :
        link' = [up |-> FALSE, closing |-> TRUE, toHouse |-> left, toBeing |-> <<>>]
  BY DEF Drop
<1>2. UNCHANGED <<host, pending, outcome, runner, child, running, runs, said, heard>>
  BY DEF Drop
<1>3. left \in Seq(Messages) /\ ToSet(left) \subseteq ToSet(link.toHouse)
  <2>1. CASE left = <<>>
    BY <2>1, Nothing
  <2>2. CASE left = link.toHouse
    BY <2>2, Fields DEF Inv
  <2> QED
    BY <1>1, <2>1, <2>2
<1>4. link' \in Links /\ link'.toHouse = left /\ link'.toBeing = <<>> /\ ~link'.up /\ link'.closing
  <2>1. <<>> \in Seq(Ids)
    OBVIOUS
  <2> QED
    BY <1>1, <1>3, <2>1 DEF Links
<1>5. InFlight' \subseteq InFlight
  BY <1>2, <1>3, <1>4 DEF InFlight
<1>6. Opened' /\ LinesSound'
  BY <1>2, <1>4 DEF Opened, Inv, LinesSound
<1>7. runner' \in Runners /\ child' \in Children
  BY <1>2 DEF Inv, Typed, BeingTyped
<1> QED
  BY <1>2, <1>4, <1>5, <1>6, <1>7, LineChanges

(* A new connection, of which the house believes nothing yet.              *)
LEMMA ConnectKeeps ==
  ASSUME Inv, Connect
  PROVE  Inv'
<1>1. /\ ~host.open /\ host.opening = 0 /\ link.toBeing = <<>>
      /\ runner \in Runners /\ child \in Children
      /\ UNCHANGED <<host, pending, outcome, running, runs, said, heard>>
  BY DEF Connect, Inv, LinesSound, Typed, BeingTyped
<1>2. PICK ms \in {<<>>, <<Starting>>} : link' = Fresh(ms)
  BY DEF Connect
<1>3. ms \in Seq(Messages) /\ ToSet(ms) \subseteq {Starting}
  <2> DEFINE one == <<Starting>>
  <2>1. one \in Seq(Messages) /\ ToSet(one) = {Starting}
    BY Told, Few
  <2> HIDE DEF one
  <2>2. CASE ms = <<>>
    BY <2>2, Nothing
  <2>3. CASE ms = one
    BY <2>1, <2>3
  <2> QED
    BY <1>2, <2>2, <2>3 DEF one
<1>4. link' \in Links /\ link'.up /\ ~link'.closing /\ link'.toHouse = ms /\ link'.toBeing = <<>>
  <2>1. <<>> \in Seq(Ids)
    OBVIOUS
  <2> QED
    BY <1>2, <1>3, <2>1 DEF Links, Fresh
<1>5. /\ runner' \in Runners /\ child' \in Children
      /\ Len(runner'.buffer) <= Cap /\ ToSet(runner'.buffer) \subseteq ToSet(runner.buffer)
      /\ child'.state # "ready" => running = <<>> /\ ~child'.open
  <2>1. CASE child.state = "none"
    <3>1. runner' = [wasLive |-> TRUE, buffer |-> <<>>] /\ child' = [child EXCEPT !.state = "starting"]
      BY <2>1 DEF Connect
    <3>2. runner' \in Runners /\ Len(runner'.buffer) <= Cap /\ ToSet(runner'.buffer) = {}
      BY <3>1, BoundsAreNumbers DEF Runners, ToSet
    <3>3. child' \in Children /\ child'.open = child.open
      BY <1>1, <3>1 DEF Children
    <3> QED
      BY <2>1, <3>2, <3>3 DEF Inv, LinesSound
  <2>2. CASE child.state # "none"
    BY <1>1, <2>2 DEF Connect, Inv, LinesSound
  <2> QED
    BY <2>1, <2>2
<1>6. LinesSound'
  BY <1>1, <1>4, <1>5 DEF LinesSound
<1>7. \A m \in InFlight' : m \in InFlight \/ m.type # "result"
  <2>1. InFlight' \subseteq InFlight \cup {Starting}
    BY <1>3, <1>4, <1>5 DEF InFlight
  <2> QED
    BY <2>1, Told DEF Starting
<1> QED
  BY <1>1, <1>4, <1>5, <1>6, <1>7, LineChanges

(* The being's container starts anew.                                      *)
LEMMA BeingRestartsKeeps ==
  ASSUME Inv, BeingRestarts
  PROVE  Inv'
<1>1. /\ link' = [link EXCEPT !.up = FALSE, !.closing = link.up \/ @, !.toBeing = <<>>]
      /\ runner' = [wasLive |-> FALSE, buffer |-> <<>>]
      /\ child' = [state |-> "none", open |-> FALSE, again |-> FALSE]
      /\ running' = <<>>
      /\ UNCHANGED <<host, pending, outcome, runs, said, heard>>
  BY DEF BeingRestarts
<1>2. link \in Links /\ link.up \in BOOLEAN
  BY Fields DEF Inv, Typed
<1>3. /\ link' \in Links /\ ~link'.up /\ link'.toBeing = <<>> /\ link'.toHouse = link.toHouse
      /\ link'.closing <=> link.up \/ link.closing
  <2>1. <<>> \in Seq(Ids)
    OBVIOUS
  <2> QED
    BY <1>1, <1>2, <2>1 DEF Links
<1>4. /\ runner' \in Runners /\ Len(runner'.buffer) <= Cap /\ ToSet(runner'.buffer) = {}
  BY <1>1, BoundsAreNumbers DEF Runners, ToSet
<1>5. child' \in Children /\ child'.state = "none" /\ ~child'.open
  BY <1>1 DEF Children
<1>6. InFlight' \subseteq InFlight
  BY <1>3, <1>4 DEF InFlight
<1>7. LinesSound'
  BY <1>1, <1>3, <1>4, <1>5 DEF Inv, LinesSound
<1>8. (Opened => Opened') \/ (~host.open /\ host.opening = 0)
  <2>1. CASE link.up \/ link.closing
    BY <1>3, <2>1 DEF Opened
  <2>2. CASE ~(link.up \/ link.closing)
    BY <2>2 DEF Inv, LinesSound
  <2> QED
    BY <2>1, <2>2
<1> QED
  BY <1>1, <1>3, <1>4, <1>5, <1>6, <1>7, <1>8, LineChanges

-----------------------------------------------------------------------------
(* The house's side.                                                       *)

(* What is on its way stays in keeping when the house does something else, *)
(* asks for the room anew, or no longer asks.                              *)
LEMMA NewsStays ==
  ASSUME Inv, UNCHANGED <<runner, running>>,
         ToSet(link'.toHouse) \subseteq ToSet(link.toHouse),
         \A id \in Ids : outcome[id] # "new" => outcome'[id] # "new",
         (Opened => Opened') \/ (~host'.open /\ host'.opening = 0),
         host'.open => host.open \/ Opened,
         host'.opening \in {0, host.opening} \/ outcome[host'.opening] = "new"
  PROVE  NewsSound'
<1>1. InFlight' \subseteq InFlight
  BY DEF InFlight
<1>2. \A m \in InFlight : m \in Messages
  BY Fields DEF InFlight, ToSet, Inv
<1>3. \A id \in ToSet(running') : outcome'[id] # "new"
  <2>1. \A id \in ToSet(running) : id \in Ids
    BY DEF Inv, Typed, BeingTyped, ToSet
  <2> QED
    BY <2>1 DEF Inv, NewsSound
<1>4. \A m \in InFlight' : m.type = "result" => outcome'[m.id] # "new"
  BY <1>1, <1>2, Kinds DEF Inv, NewsSound
<1>5. host'.open => Opened'
  BY DEF Inv, NewsSound
<1>6. ASSUME NEW m \in InFlight', m.type = "result", m.ok = "ok", m.id = host'.opening
      PROVE  Opened'
  <2>1. m \in InFlight /\ m.id # 0 /\ outcome[m.id] # "new"
    BY <1>1, <1>2, <1>6, Kinds, Numbers DEF Inv, NewsSound
  <2>2. host'.opening = host.opening /\ Opened
    BY <1>6, <2>1 DEF Inv, NewsSound
  <2> QED
    BY <1>6, <2>1, <2>2
<1> QED
  BY <1>3, <1>4, <1>5, <1>6 DEF NewsSound

(* Requests that are no longer awaited, and none that is new.              *)
LEMMA LetGo ==
  ASSUME Inv, UNCHANGED runs, link'.toBeing = link.toBeing,
         \A id \in Ids : outcome'[id] = "new" => outcome[id] = "new",
         \A id \in Ids : outcome'[id] = "pending" <=> id \in DOMAIN pending',
         DOMAIN pending' \subseteq DOMAIN pending,
         \A id \in DOMAIN pending' :
           /\ pending'[id].retried = pending[id].retried
           /\ pending'[id].retried \/ id \in Opens => pending'[id].timer
           /\ pending'[id].timer \/ ~pending[id].timer \/ ~Sent(id),
         host'.opening # 0 => host'.opening \in DOMAIN pending'
  PROVE  PendingSound' /\ SentSound'
<1>1. PendingSound'
  BY DEF PendingSound
<1>2. \A id : Sent(id)' <=> Sent(id)
  BY DEF Sent
<1>3. \A id \in DOMAIN pending' : ~pending'[id].timer => ~Sent(id)'
  BY <1>2 DEF Inv, SentSound
<1>4. ASSUME NEW id \in Ids PROVE Within(id)'
  <2>1. Within(id) /\ (Once(id)' => Once(id))
    BY DEF Inv, SentSound, Once
  <2> QED
    BY <1>2, <2>1 DEF Within
<1> QED
  BY <1>1, <1>3, <1>4 DEF Inv, SentSound

(* Requests that are sent: for the first time, or the one time again.      *)
LEMMA Sends ==
  ASSUME Inv, UNCHANGED runs, NEW O \in SUBSET Ids,
         IsInjective(link'.toBeing),
         ToSet(link'.toBeing) \subseteq ToSet(link.toBeing) \cup O,
         DOMAIN pending' = DOMAIN pending \cup O,
         \A id \in Ids \ O : outcome'[id] = outcome[id],
         \A id \in DOMAIN pending \ O : pending'[id] = pending[id],
         \A id \in O :
           /\ ~Sent(id) /\ outcome'[id] = "pending" /\ pending'[id].timer
           /\ outcome[id] = "new" \/ (Once(id) /\ pending'[id].retried /\ id \notin Opens),
         host'.opening # 0 => host'.opening \in DOMAIN pending'
  PROVE  PendingSound' /\ SentSound'
<1>1. DOMAIN pending \subseteq Ids
  BY DEF Inv, Typed, HostTyped
<1>2. PendingSound'
  <2>1. \A id \in Ids : outcome'[id] = "pending" <=> id \in DOMAIN pending'
    BY <1>1 DEF Inv, PendingSound
  <2>2. \A id \in DOMAIN pending' : pending'[id].retried \/ id \in Opens => pending'[id].timer
    BY <1>1 DEF Inv, PendingSound
  <2> QED
    BY <2>1, <2>2 DEF PendingSound
<1>3. \A id : Sent(id)' => Sent(id) \/ id \in O
  BY DEF Sent
<1>4. \A id \in DOMAIN pending' : ~pending'[id].timer => ~Sent(id)'
  BY <1>3 DEF Inv, SentSound
<1>5. ASSUME NEW id \in Ids PROVE Within(id)'
  <2>1. Within(id) /\ runs[id] \in Nat /\ runs'[id] = runs[id]
    BY DEF Inv, SentSound, Typed, BeingTyped
  <2>2. CASE id \notin O
    <3>1. (Once(id)' <=> Once(id)) /\ outcome'[id] = outcome[id] /\ (Sent(id)' => Sent(id))
      BY <1>1, <1>3, <2>2 DEF Once
    <3> QED
      BY <2>1, <3>1 DEF Within
  <2>3. CASE id \in O /\ outcome[id] = "new"
    <3>1. runs'[id] = 0 /\ outcome'[id] # "new"
      BY <2>1, <2>3 DEF Within
    <3> QED
      BY <3>1 DEF Within
  <2>4. CASE id \in O /\ outcome[id] # "new"
    <3>1. runs[id] <= 1 /\ ~Once(id)' /\ outcome'[id] # "new"
      BY <2>1, <2>4 DEF Within, Once
    <3> QED
      BY <2>1, <3>1 DEF Within
  <2> QED
    BY <2>2, <2>3, <2>4
<1> QED
  BY <1>2, <1>4, <1>5 DEF SentSound

(* A request that is new and asked for is the first such.                  *)
LEMMA NextIsNew ==
  ASSUME Typed
  PROVE  /\ (\E id \in 1 .. MaxCalls : outcome[id] = "new") =>
              NextCall \in Ids /\ outcome[NextCall] = "new"
         /\ (\E id \in Opens : outcome[id] = "new") =>
              NextOpen \in Opens /\ outcome[NextOpen] = "new"
<1>1. ASSUME NEW id \in 1 .. MaxCalls, outcome[id] = "new"
      PROVE  NextCall \in 1 .. MaxCalls /\ outcome[NextCall] = "new"
  <2> DEFINE T == {i \in 1 .. MaxCalls : outcome[i] = "new"}
  <2>0. T \subseteq Nat /\ T # {}
    BY <1>1
  <2>1. PICK n \in T : \A m \in T : n <= m
    BY <2>0, Least
  <2>2. \A j \in 1 .. (n - 1) : outcome[j] # "new"
    BY <2>1, BoundsAreNumbers
  <2>3. \E i \in 1 .. MaxCalls : outcome[i] = "new" /\ \A j \in 1 .. (i - 1) : outcome[j] # "new"
    BY <2>1, <2>2
  <2> QED
    BY <2>3 DEF NextCall
<1>2. ASSUME NEW id \in Opens, outcome[id] = "new"
      PROVE  NextOpen \in Opens /\ outcome[NextOpen] = "new"
  <2> DEFINE T == {i \in Opens : outcome[i] = "new"}
  <2>1. T \subseteq Nat
    BY Numbers
  <2>2. PICK n \in T : \A m \in T : n <= m
    BY <1>2, <2>1, Least
  <2>3. \A j \in Opens : j < n => outcome[j] # "new"
    BY <2>1, <2>2, Numbers
  <2>4. \E i \in Opens : outcome[i] = "new" /\ \A j \in Opens : j < i => outcome[j] # "new"
    BY <2>2, <2>3
  <2> QED
    BY <2>4 DEF NextOpen
<1>3. 1 .. MaxCalls \subseteq Ids
  BY BoundsAreNumbers DEF Ids
<1> QED
  BY <1>1, <1>2, <1>3

(* A tool call: refused, or sent if there is a connection.                 *)
LEMMA CallToolKeeps ==
  ASSUME Inv, CallTool
  PROVE  Inv'
<1> DEFINE c == NextCall
<1>1. c \in Ids /\ outcome[c] = "new"
  BY NextIsNew DEF CallTool, Inv
<1>2. UNCHANGED <<host, runner, child, running, runs, said, heard>>
  BY DEF CallTool
<1>3. /\ outcome \in [Ids -> Settled \cup {"new", "pending"}] /\ link \in Links /\ DOMAIN pending \subseteq Ids
      /\ \A id \in DOMAIN pending : pending[id] \in Waiting
      /\ \A id \in Ids : outcome[id] = "pending" <=> id \in DOMAIN pending
      /\ Opened' <=> link'.closing \/ child.again \/ child.open
  BY <1>2 DEF Inv, Typed, HostTyped, PendingSound, Opened
<1>4. CASE /\ \E how \in {"not-ready", "no-seat"} : outcome' = [outcome EXCEPT ![c] = how]
           /\ UNCHANGED <<pending, link>>
  <2>1. outcome'[c] \notin {"new", "pending"} /\ \A id \in Ids \ {c} : outcome'[id] = outcome[id]
    BY <1>1, <1>3, <1>4
  <2>2. outcome' \in [Ids -> Settled \cup {"new", "pending"}]
    BY <1>1, <1>3, <1>4 DEF Settled
  <2> HIDE DEF c
  <2>3. Typed' /\ LinesSound'
    BY <1>2, <1>4, <2>2 DEF Inv, Typed, HostTyped, BeingTyped, LinesSound
  <2>4. PendingSound' /\ SentSound'
    <3>1. \A id \in Ids : outcome'[id] = "pending" <=> id \in DOMAIN pending'
      BY <1>1, <1>3, <1>4, <2>1
    <3>2. \A id \in Ids : outcome'[id] = "new" => outcome[id] = "new"
      BY <1>1, <2>1
    <3> QED
      BY <1>2, <1>4, <3>1, <3>2, LetGo DEF Inv, PendingSound
  <2>5. NewsSound'
    <3>1. \A id \in Ids : outcome[id] # "new" => outcome'[id] # "new"
      BY <1>1, <2>1
    <3>2. Opened => Opened'
      BY <1>3, <1>4 DEF Opened
    <3> QED
      BY <1>2, <1>4, <3>1, <3>2, NewsStays
  <2> QED
    BY <2>3, <2>4, <2>5 DEF Inv
<1>5. CASE /\ outcome' = [outcome EXCEPT ![c] = "pending"]
           /\ pending' = [id \in DOMAIN pending \cup {c} |->
                            IF id = c THEN [timer |-> TRUE, retried |-> FALSE] ELSE pending[id]]
           /\ link' = IF link.up THEN [link EXCEPT !.toBeing = Append(@, c)] ELSE link
  <2>1. outcome'[c] = "pending" /\ \A id \in Ids \ {c} : outcome'[id] = outcome[id]
    BY <1>1, <1>3, <1>5
  <2>2. outcome' \in [Ids -> Settled \cup {"new", "pending"}]
    BY <1>1, <1>3, <1>5
  <2>3. /\ DOMAIN pending' = DOMAIN pending \cup {c} /\ c \notin DOMAIN pending
        /\ pending'[c].timer /\ \A id \in DOMAIN pending : pending'[id] = pending[id]
        /\ \A id \in DOMAIN pending' : pending'[id] \in Waiting
    <3>1. c \notin DOMAIN pending
      BY <1>1, <1>3
    <3>2. [timer |-> TRUE, retried |-> FALSE] \in Waiting
      BY DEF Waiting
    <3> HIDE DEF c
    <3> QED
      BY <1>3, <1>5, <3>1, <3>2
  <2>4. c \notin ToSet(link.toBeing)
    BY <1>1 DEF Inv, SentSound, Within, Sent
  <2> HIDE DEF c
  <2>5. /\ link' \in Links /\ link'.up = link.up /\ link'.closing = link.closing
        /\ link'.toHouse = link.toHouse /\ IsInjective(link'.toBeing)
        /\ ToSet(link'.toBeing) \subseteq ToSet(link.toBeing) \cup {c}
        /\ ~link.up => link'.toBeing = link.toBeing
    <3>1. CASE link.up
      <4> DEFINE more == Append(link.toBeing, c)
      <4>1. /\ more \in Seq(Ids) /\ ToSet(more) = ToSet(link.toBeing) \cup {c} /\ IsInjective(more)
        BY <1>1, <2>4, Fields, Appended DEF Inv, SentSound
      <4>2. link' = [link EXCEPT !.toBeing = more]
        BY <1>5, <3>1
      <4> HIDE DEF more
      <4>3. /\ link' \in Links /\ link'.up = link.up /\ link'.closing = link.closing
            /\ link'.toHouse = link.toHouse /\ link'.toBeing = more
        BY <1>3, <4>1, <4>2 DEF Links
      <4> QED
        BY <3>1, <4>1, <4>3
    <3>2. CASE ~link.up
      BY <1>3, <1>5, <3>2 DEF Inv, SentSound
    <3> QED
      BY <3>1, <3>2
  <2>6. Typed'
    BY <1>1, <1>2, <1>3, <2>2, <2>3, <2>5 DEF Inv, Typed, HostTyped, BeingTyped
  <2>7. LinesSound'
    BY <1>2, <2>5 DEF Inv, LinesSound
  <2>8. PendingSound' /\ SentSound'
    <3>1. \A id \in {c} : /\ ~Sent(id) /\ outcome'[id] = "pending" /\ pending'[id].timer
                          /\ outcome[id] = "new" \/ (Once(id) /\ pending'[id].retried /\ id \notin Opens)
      BY <1>1, <2>1, <2>3, <2>4 DEF Sent
    <3>2. host'.opening # 0 => host'.opening \in DOMAIN pending'
      BY <1>2, <2>3 DEF Inv, PendingSound
    <3>3. {c} \in SUBSET Ids
      BY <1>1
    <3> QED
      BY <1>2, <2>1, <2>3, <2>5, <3>1, <3>2, <3>3, Sends
  <2>9. NewsSound'
    <3>1. \A id \in Ids : outcome[id] # "new" => outcome'[id] # "new"
      BY <1>1, <2>1
    <3>2. Opened => Opened'
      BY <1>3, <2>5 DEF Opened
    <3> QED
      BY <1>2, <2>5, <3>1, <3>2, NewsStays
  <2> QED
    BY <2>6, <2>7, <2>8, <2>9 DEF Inv
<1> QED
  BY <1>4, <1>5 DEF CallTool

(* A request is given up.                                                  *)
LEMMA TimesOutKeeps ==
  ASSUME Inv, NEW id \in DOMAIN pending, TimesOut(id)
  PROVE  Inv'
<1>1. /\ pending' = Without({id}) /\ outcome' = [outcome EXCEPT ![id] = "timeout"]
      /\ host' = IF id = host.opening THEN [host EXCEPT !.opening = 0] ELSE host
      /\ UNCHANGED <<link, runner, child, running, runs, said, heard>>
  BY DEF TimesOut
<1>2. /\ outcome \in [Ids -> Settled \cup {"new", "pending"}] /\ host \in Hosts /\ id \in Ids
      /\ DOMAIN pending \subseteq Ids /\ \A i \in DOMAIN pending : pending[i] \in Waiting
  BY DEF Inv, Typed, HostTyped
<1>3. DOMAIN pending' = DOMAIN pending \ {id} /\ \A i \in DOMAIN pending' : pending'[i] = pending[i]
  BY <1>1 DEF Without
<1>4. /\ outcome'[id] = "timeout" /\ \A i \in Ids \ {id} : outcome'[i] = outcome[i]
      /\ outcome' \in [Ids -> Settled \cup {"new", "pending"}]
  BY <1>1, <1>2 DEF Settled
<1>5. /\ host' \in Hosts /\ host'.open = host.open /\ host'.opening \in {0, host.opening}
      /\ host'.opening # 0 => host'.opening = host.opening /\ host.opening # id
  BY <1>1, <1>2 DEF Hosts
<1>6. outcome[id] = "pending"
  BY <1>2 DEF Inv, PendingSound
<1>7. Typed'
  BY <1>1, <1>2, <1>3, <1>4, <1>5 DEF Inv, Typed, HostTyped, BeingTyped
<1>8. LinesSound'
  BY <1>1, <1>5 DEF Inv, LinesSound
<1>9. PendingSound' /\ SentSound'
  <2>1. \A i \in Ids : outcome'[i] = "pending" <=> i \in DOMAIN pending'
    BY <1>3, <1>4 DEF Inv, PendingSound
  <2>2. host'.opening # 0 => host'.opening \in DOMAIN pending'
    BY <1>3, <1>5 DEF Inv, PendingSound
  <2>3. \A i \in Ids : outcome'[i] = "new" => outcome[i] = "new"
    BY <1>4
  <2>4. \A i \in DOMAIN pending' :
          /\ pending'[i].retried = pending[i].retried
          /\ pending'[i].retried \/ i \in Opens => pending'[i].timer
          /\ pending'[i].timer \/ ~pending[i].timer \/ ~Sent(i)
    BY <1>3 DEF Inv, PendingSound
  <2> QED
    BY <1>1, <1>3, <2>1, <2>2, <2>3, <2>4, LetGo
<1>10. NewsSound'
  <2>1. Opened => Opened'
    BY <1>1 DEF Opened
  <2>2. \A i \in Ids : outcome[i] # "new" => outcome'[i] # "new"
    BY <1>4
  <2> QED
    BY <1>1, <1>5, <2>1, <2>2, NewsStays
<1> QED
  BY <1>7, <1>8, <1>9, <1>10 DEF Inv

(* The house sees that the connection is over: it believes nothing of the  *)
(* being any more, and keeps the calls it may still try again.             *)
LEMMA HouseSeesCloseKeeps ==
  ASSUME Inv, HouseSeesClose
  PROVE  Inv'
<1> DEFINE over == {id \in DOMAIN pending : ~Parks(id)}
<1>1. /\ link.closing /\ link' = [link EXCEPT !.closing = FALSE, !.toHouse = <<>>]
      /\ pending' = [id \in DOMAIN pending \ over |-> [pending[id] EXCEPT !.timer = FALSE]]
      /\ outcome' = [id \in Ids |-> IF id \in over THEN "detached" ELSE outcome[id]]
      /\ host' = [host EXCEPT !.wire = FALSE, !.known = FALSE, !.open = FALSE, !.opening = 0]
      /\ child' = [child EXCEPT !.again = FALSE]
      /\ UNCHANGED <<runner, running, runs, said, heard>>
  BY DEF HouseSeesClose, Detached
<1>2. /\ outcome \in [Ids -> Settled \cup {"new", "pending"}] /\ host \in Hosts
      /\ DOMAIN pending \subseteq Ids /\ \A id \in DOMAIN pending : pending[id] \in Waiting
      /\ link \in Links /\ child \in Children
  BY DEF Inv, Typed, HostTyped, BeingTyped
<1>3. \A id \in DOMAIN pending \ over : id \notin Opens /\ ~pending[id].retried
  BY DEF Parks
<1> HIDE DEF over
<1>4. host' \in Hosts /\ ~host'.open /\ host'.opening = 0
  BY <1>1, <1>2 DEF Hosts
<1>5. child' \in Children /\ child'.open = child.open /\ child'.state = child.state
  BY <1>1, <1>2 DEF Children
<1>6. /\ link' \in Links /\ link'.up = link.up /\ link'.toBeing = link.toBeing
      /\ ~link'.closing /\ link'.toHouse = <<>> /\ ToSet(link'.toHouse) = {}
  <2>1. <<>> \in Seq(Messages) /\ ToSet(<<>>) = {}
    BY Nothing
  <2> QED
    BY <1>1, <1>2, <2>1 DEF Links
<1>7. ~link.up /\ link.toBeing = <<>> /\ \A id : ~Sent(id)
  <2>1. ~link.up /\ link.toBeing = <<>>
    BY <1>1 DEF Inv, LinesSound
  <2> QED
    BY <2>1, Nothing DEF Sent
<1>8. /\ DOMAIN pending' = DOMAIN pending \ over
      /\ \A id \in DOMAIN pending' : /\ pending'[id] \in Waiting
                                     /\ pending'[id].retried = pending[id].retried /\ ~pending'[id].timer
  <2>1. \A p \in Waiting : LET q == [p EXCEPT !.timer = FALSE]
                           IN  q \in Waiting /\ q.retried = p.retried /\ ~q.timer
    BY DEF Waiting
  <2> QED
    BY <1>1, <1>2, <2>1
<1>9. outcome' \in [Ids -> Settled \cup {"new", "pending"}]
  BY <1>1, <1>2 DEF Settled
<1>10. over \subseteq DOMAIN pending
  BY DEF over
<1>11. Typed'
  BY <1>1, <1>2, <1>4, <1>5, <1>6, <1>8, <1>9 DEF Inv, Typed, HostTyped, BeingTyped
<1>12. LinesSound'
  BY <1>1, <1>4, <1>5, <1>6 DEF Inv, LinesSound
<1>13. PendingSound' /\ SentSound'
  <2>1. \A id \in Ids : outcome'[id] = "pending" <=> id \in DOMAIN pending'
    BY <1>1, <1>8, <1>10 DEF Inv, PendingSound
  <2>2. \A id \in Ids : outcome'[id] = "new" => outcome[id] = "new"
    BY <1>1
  <2>3. \A id \in DOMAIN pending' :
          /\ pending'[id].retried = pending[id].retried
          /\ pending'[id].retried \/ id \in Opens => pending'[id].timer
          /\ pending'[id].timer \/ ~pending[id].timer \/ ~Sent(id)
    BY <1>3, <1>7, <1>8
  <2> QED
    BY <1>1, <1>4, <1>6, <1>8, <2>1, <2>2, <2>3, LetGo
<1>14. NewsSound'
  <2>1. \A id \in Ids : outcome[id] # "new" => outcome'[id] # "new"
    BY <1>1
  <2> QED
    BY <1>1, <1>4, <1>6, <2>1, NewsStays
<1> QED
  BY <1>11, <1>12, <1>13, <1>14 DEF Inv

(* What the house reads came over a connection that is up, or was.         *)
LEMMA WhatIsRead ==
  ASSUME Inv, link.toHouse # <<>>
  PROVE  /\ Head(link.toHouse) \in Messages /\ Head(link.toHouse) \in InFlight
         /\ Tail(link.toHouse) \in Seq(Messages)
         /\ ToSet(Tail(link.toHouse)) \subseteq ToSet(link.toHouse)
         /\ link.up \/ link.closing
         /\ link \in Links
<1>1. /\ Head(link.toHouse) \in Messages /\ Tail(link.toHouse) \in Seq(Messages)
      /\ ToSet(link.toHouse) = ToSet(Tail(link.toHouse)) \cup {Head(link.toHouse)}
  BY Fields, HeadAndTail DEF Inv
<1> QED
  BY <1>1 DEF InFlight, Inv, LinesSound, Typed

(* A message that asks nothing of the connection.                          *)
LEMMA ReadsKeeps ==
  ASSUME Inv, link.toHouse # <<>>,
         link' = [link EXCEPT !.toHouse = Tail(@)],
         UNCHANGED <<runner, child, running, runs, said>>,
         host' \in Hosts, heard' \in Seq(Nat),
         outcome' \in [Ids -> Settled \cup {"new", "pending"}],
         DOMAIN pending' \subseteq DOMAIN pending,
         \A id \in DOMAIN pending' : pending'[id] = pending[id],
         \A id \in Ids : outcome'[id] = "new" <=> outcome[id] = "new",
         \A id \in Ids : outcome'[id] = "pending" <=> id \in DOMAIN pending',
         host'.opening \in {0, host.opening},
         host'.opening # 0 => host'.opening \in DOMAIN pending',
         host'.open => host.open \/ Opened
  PROVE  Inv'
<1>1. /\ Tail(link.toHouse) \in Seq(Messages)
      /\ ToSet(Tail(link.toHouse)) \subseteq ToSet(link.toHouse)
      /\ link.up \/ link.closing
      /\ link \in Links
  BY WhatIsRead
<1>2. /\ link' \in Links /\ link'.toHouse = Tail(link.toHouse) /\ link'.toBeing = link.toBeing
      /\ link'.up = link.up /\ link'.closing = link.closing
  BY <1>1 DEF Links
<1>3. /\ DOMAIN pending' \subseteq Ids /\ \A id \in DOMAIN pending' : pending'[id] \in Waiting
  BY DEF Inv, Typed, HostTyped
<1>4. Typed'
  BY <1>2, <1>3 DEF Inv, Typed, HostTyped, BeingTyped
<1>5. LinesSound'
  BY <1>1, <1>2 DEF Inv, LinesSound
<1>6. PendingSound' /\ SentSound'
  <2>1. \A id \in DOMAIN pending' :
          /\ pending'[id].retried = pending[id].retried
          /\ pending'[id].retried \/ id \in Opens => pending'[id].timer
          /\ pending'[id].timer \/ ~pending[id].timer \/ ~Sent(id)
    BY DEF Inv, PendingSound
  <2>2. \A id \in Ids : outcome'[id] = "new" => outcome[id] = "new"
    OBVIOUS
  <2> QED
    BY <1>2, <2>1, <2>2, LetGo
<1>7. NewsSound'
  <2>1. Opened => Opened'
    BY <1>2 DEF Opened
  <2>2. \A id \in Ids : outcome[id] # "new" => outcome'[id] # "new"
    OBVIOUS
  <2> QED
    BY <1>1, <1>2, <2>1, <2>2, NewsStays
<1> QED
  BY <1>4, <1>5, <1>6, <1>7 DEF Inv

(* The calls that are tried again: none of them on its way, each a first   *)
(* try of a tool call, and each once.                                      *)
LEMMA RetriesAre ==
  ASSUME Inv, NEW retries \in Retried
  PROVE  /\ retries \in Seq(Ids) /\ IsInjective(retries)
         /\ \A id \in ToSet(retries) :
              id \in DOMAIN pending /\ ~Sent(id) /\ Once(id) /\ id \notin Opens /\ outcome[id] # "new"
<1> DEFINE P == {id \in DOMAIN pending : Parked(id)}
           n == Cardinality(P)
<1>1. DOMAIN pending \subseteq Ids
  BY DEF Inv, Typed, HostTyped
<1>2. IsFiniteSet(Ids)
  BY BoundsAreNumbers, FS_Interval DEF Ids
<1>3. IsFiniteSet(P)
  BY <1>1, <1>2, FS_Subset
<1>4. n \in Nat
  BY <1>3, FS_CardinalityType
<1>5. retries \in [1 .. n -> P] /\ \A i, j \in DOMAIN retries : i < j => retries[i] < retries[j]
  BY DEF Retried
<1>6. P \subseteq Ids
  BY <1>1
<1>7. \A id \in P : id \in DOMAIN pending /\ ~pending[id].timer
  BY DEF Parked
<1> HIDE DEF P, n
<1>8. retries \in Seq(Ids)
  <2>1. retries \in [1 .. n -> Ids]
    BY <1>5, <1>6
  <2> QED
    BY <1>4, <2>1, ListIsSequence
<1>9. IsInjective(retries)
  <2> SUFFICES ASSUME NEW i \in 1 .. n, NEW j \in 1 .. n, retries[i] = retries[j]
               PROVE  i = j
    BY <1>5 DEF IsInjective
  <2>1. retries[i] \in Nat /\ retries[j] \in Nat
    BY <1>5, <1>6, Numbers
  <2>2. ~(i < j) /\ ~(j < i)
    BY <1>5, <2>1
  <2> QED
    BY <1>4, <2>2
<1>10. ASSUME NEW id \in ToSet(retries)
       PROVE  id \in DOMAIN pending /\ ~Sent(id) /\ Once(id) /\ id \notin Opens /\ outcome[id] # "new"
  <2>1. id \in P
    BY <1>5 DEF ToSet
  <2>2. id \in DOMAIN pending /\ ~pending[id].timer /\ id \in Ids
    BY <1>6, <1>7, <2>1
  <2> QED
    BY <2>2 DEF Once, Inv, PendingSound, SentSound
<1> QED
  BY <1>8, <1>9, <1>10

(* A hello: what may be tried again is sent, and the room asked for.       *)
LEMMA GreetedKeeps ==
  ASSUME Inv, link.toHouse # <<>>, NEW h \in Hosts, h.open = host.open, h.opening = host.opening,
         NEW retries \in Retried, Greeted(h, retries),
         UNCHANGED <<heard, runner, child, running, runs, said>>
  PROVE  Inv'
<1> DEFINE opens == IF MayOpen(h) THEN <<NextOpen>> ELSE <<>>
           out == retries \o opens
           O == ToSet(out)
           beings == IF link.up THEN link.toBeing \o out ELSE link.toBeing
           again == [timer |-> TRUE, retried |-> TRUE]
           first == [timer |-> TRUE, retried |-> FALSE]
<1>1. /\ retries \in Seq(Ids) /\ IsInjective(retries)
      /\ \A id \in ToSet(retries) :
           id \in DOMAIN pending /\ ~Sent(id) /\ Once(id) /\ id \notin Opens /\ outcome[id] # "new"
  BY RetriesAre
<1>2. MayOpen(h) => NextOpen \in Opens /\ NextOpen \in Ids /\ outcome[NextOpen] = "new"
  BY NextIsNew, Numbers DEF MayOpen, Inv
<1>3. /\ host' = IF MayOpen(h) THEN [h EXCEPT !.opening = NextOpen] ELSE h
      /\ pending' = [id \in DOMAIN pending \cup O |->
                       IF id \in ToSet(retries) THEN again
                       ELSE IF id \in ToSet(opens) THEN first ELSE pending[id]]
      /\ outcome' = [id \in Ids |-> IF id \in ToSet(opens) THEN "pending" ELSE outcome[id]]
      /\ link' = [link EXCEPT !.toHouse = Tail(@), !.toBeing = beings]
  BY DEF Greeted
<1>4. /\ opens \in Seq(Ids) /\ IsInjective(opens)
      /\ MayOpen(h) => ToSet(opens) = {NextOpen}
      /\ ~MayOpen(h) => ToSet(opens) = {}
  <2>1. CASE MayOpen(h)
    BY <1>2, <2>1, Few
  <2>2. CASE ~MayOpen(h)
    BY <2>2, Nothing DEF IsInjective
  <2> QED
    BY <2>1, <2>2
<1>5. \A id \in ToSet(opens) : id \in Opens /\ id \in Ids /\ outcome[id] = "new" /\ MayOpen(h)
  BY <1>2, <1>4
<1> HIDE DEF opens
<1>6. /\ out \in Seq(Ids) /\ O = ToSet(retries) \cup ToSet(opens) /\ IsInjective(out)
  <2>1. ToSet(retries) \cap ToSet(opens) = {}
    BY <1>1, <1>5
  <2> QED
    BY <1>1, <1>4, <2>1, Joined
<1>7. O \subseteq Ids /\ \A id \in O : ~Sent(id)
  <2>1. \A id \in ToSet(opens) : ~Sent(id)
    BY <1>5 DEF Inv, SentSound, Within
  <2>2. DOMAIN pending \subseteq Ids
    BY DEF Inv, Typed, HostTyped
  <2> QED
    BY <1>1, <1>5, <1>6, <2>1, <2>2
<1> HIDE DEF out, O
<1>8. /\ beings \in Seq(Ids) /\ IsInjective(beings) /\ ToSet(beings) \subseteq ToSet(link.toBeing) \cup O
      /\ ~link.up => beings = link.toBeing
  <2>1. link.toBeing \in Seq(Ids) /\ IsInjective(link.toBeing) /\ O = ToSet(out)
    BY Fields DEF Inv, SentSound, O
  <2>2. ToSet(link.toBeing) \cap O = {}
    BY <1>7 DEF Sent
  <2>3. /\ link.toBeing \o out \in Seq(Ids) /\ IsInjective(link.toBeing \o out)
        /\ ToSet(link.toBeing \o out) = ToSet(link.toBeing) \cup O
    BY <1>6, <2>1, <2>2, Joined
  <2>4. CASE link.up
    BY <2>3, <2>4
  <2>5. CASE ~link.up
    BY <2>1, <2>5
  <2> QED
    BY <2>4, <2>5
<1> HIDE DEF beings
<1>9. /\ Tail(link.toHouse) \in Seq(Messages) /\ link \in Links /\ (link.up \/ link.closing)
      /\ ToSet(Tail(link.toHouse)) \subseteq ToSet(link.toHouse)
  BY WhatIsRead
<1>10. /\ link' \in Links /\ link'.toHouse = Tail(link.toHouse) /\ link'.toBeing = beings
       /\ link'.up = link.up /\ link'.closing = link.closing
  <2> DEFINE rest == Tail(link.toHouse)
  <2>1. link' = [link EXCEPT !.toHouse = rest, !.toBeing = beings]
    BY <1>3, Zenon
  <2>2. rest \in Seq(Messages) /\ beings \in Seq(Ids) /\ link \in Links
    BY <1>8, <1>9, Zenon
  <2> HIDE DEF rest
  <2>3. /\ link' \in Links /\ link'.toHouse = rest /\ link'.toBeing = beings
        /\ link'.up = link.up /\ link'.closing = link.closing
    BY <2>1, <2>2 DEF Links
  <2> QED
    BY <2>3, Zenon DEF rest
<1>11. /\ host' \in Hosts /\ host'.open = host.open
       /\ MayOpen(h) => host'.opening = NextOpen
       /\ ~MayOpen(h) => host'.opening = host.opening
  BY <1>2, <1>3 DEF Hosts
<1>12. /\ again \in Waiting /\ first \in Waiting
       /\ again.timer /\ again.retried /\ first.timer
  BY DEF Waiting
<1> HIDE DEF again, first
<1>13. /\ DOMAIN pending' = DOMAIN pending \cup O
       /\ \A id \in ToSet(retries) : pending'[id] = again
       /\ \A id \in ToSet(opens) : pending'[id] = first
       /\ \A id \in DOMAIN pending \ O : pending'[id] = pending[id]
  <2>1. ToSet(retries) \cap ToSet(opens) = {}
    BY <1>1, <1>5
  <2> QED
    BY <1>3, <1>6, <2>1
<1>14. /\ outcome' \in [Ids -> Settled \cup {"new", "pending"}]
       /\ \A id \in ToSet(opens) : outcome'[id] = "pending"
       /\ \A id \in Ids \ ToSet(opens) : outcome'[id] = outcome[id]
  <2>1. outcome \in [Ids -> Settled \cup {"new", "pending"}]
    BY DEF Inv, Typed, HostTyped
  <2> QED
    BY <1>3, <1>5, <2>1
<1>15. Typed'
  <2>1. /\ DOMAIN pending \subseteq Ids /\ \A id \in DOMAIN pending : pending[id] \in Waiting
    BY DEF Inv, Typed, HostTyped
  <2>2. /\ DOMAIN pending' \subseteq Ids /\ \A id \in DOMAIN pending' : pending'[id] \in Waiting
    BY <1>6, <1>7, <1>12, <1>13, <2>1
  <2> QED
    BY <1>10, <1>11, <1>14, <2>2 DEF Inv, Typed, HostTyped, BeingTyped
<1>16. LinesSound'
  BY <1>8, <1>9, <1>10 DEF Inv, LinesSound
<1>17. PendingSound' /\ SentSound'
  <2>1. \A id \in Ids \ O : outcome'[id] = outcome[id]
    BY <1>6, <1>14
  <2>2. ASSUME NEW id \in O
        PROVE  /\ ~Sent(id) /\ outcome'[id] = "pending" /\ pending'[id].timer
               /\ outcome[id] = "new" \/ (Once(id) /\ pending'[id].retried /\ id \notin Opens)
    <3>1. CASE id \in ToSet(retries)
      <4>1. outcome[id] = "pending" /\ id \in Ids /\ id \notin ToSet(opens)
        BY <1>1, <1>5, <1>7, <3>1 DEF Inv, PendingSound
      <4> QED
        BY <1>1, <1>7, <1>12, <1>13, <1>14, <3>1, <4>1
    <3>2. CASE id \in ToSet(opens)
      BY <1>5, <1>7, <1>12, <1>13, <1>14, <3>2
    <3> QED
      BY <1>6, <3>1, <3>2
  <2>3. host'.opening # 0 => host'.opening \in DOMAIN pending'
    BY <1>4, <1>6, <1>11, <1>13 DEF Inv, PendingSound
  <2>4. O \in SUBSET Ids
    BY <1>7
  <2> QED
    BY <1>8, <1>10, <1>13, <2>1, <2>2, <2>3, <2>4, Sends
<1>18. NewsSound'
  <2>1. \A id \in Ids : outcome[id] # "new" => outcome'[id] # "new"
    BY <1>14
  <2>2. Opened => Opened'
    BY <1>10 DEF Opened
  <2>3. host'.opening \in {0, host.opening} \/ outcome[host'.opening] = "new"
    BY <1>2, <1>11
  <2> QED
    BY <1>9, <1>10, <1>11, <2>1, <2>2, <2>3, NewsStays
<1> QED
  BY <1>15, <1>16, <1>17, <1>18 DEF Inv

(* The house reads what the being sent.                                    *)
LEMMA HouseReadsKeeps ==
  ASSUME Inv, HouseReads
  PROVE  Inv'
<1> DEFINE m == Head(link.toHouse)
           armed == [host EXCEPT !.wire = TRUE]
           ready == [armed EXCEPT !.state = "ready", !.known = TRUE]
<1>1. /\ link.toHouse # <<>> /\ m \in Messages /\ m \in InFlight
      /\ UNCHANGED <<runner, child, running, runs, said>>
  BY WhatIsRead DEF HouseReads
<1>2. /\ host \in Hosts /\ outcome \in [Ids -> Settled \cup {"new", "pending"}] /\ heard \in Seq(Nat)
      /\ DOMAIN pending \subseteq Ids
      /\ \A id \in Ids : outcome[id] = "pending" <=> id \in DOMAIN pending
      /\ host.opening # 0 => host.opening \in DOMAIN pending
  BY DEF Inv, Typed, HostTyped, PendingSound
<1>3. armed \in Hosts /\ armed.open = host.open /\ armed.opening = host.opening
  BY <1>2 DEF Hosts
<1>4. ready \in Hosts /\ ready.open = host.open /\ ready.opening = host.opening
  BY <1>2 DEF Hosts
<1>5. CASE /\ m.type = "hello" /\ UNCHANGED heard
           /\ \E retries \in Retried : Greeted(ready, retries)
  <2> HIDE DEF ready
  <2>1. PICK retries \in Retried : Greeted(ready, retries)
    BY <1>5
  <2> QED
    BY <1>1, <1>4, <1>5, <2>1, GreetedKeeps
<1>6. CASE /\ m.type = "child" /\ UNCHANGED <<pending, outcome, heard>>
           /\ host' = [armed EXCEPT !.state = ChildState(m.ok)]
           /\ link' = [link EXCEPT !.toHouse = Tail(@)]
  <2>1. m.ok \in {"starting", "ready", "exited", "failed"}
    BY <1>1, <1>6, Kinds
  <2>2. ChildState(m.ok) \in {"starting", "ready", "stopped", "crashed"}
    BY <2>1 DEF ChildState
  <2>3. host' \in Hosts /\ host'.open = host.open /\ host'.opening = host.opening
    <3> HIDE DEF armed, m
    <3> QED
      BY <1>3, <1>6, <2>2 DEF Hosts
  <2> QED
    BY <1>1, <1>2, <1>6, <2>3, ReadsKeeps
<1>7. CASE /\ m.type = "incoming" /\ UNCHANGED <<pending, outcome>>
           /\ heard' = Append(heard, m.id) /\ host' = armed
           /\ link' = [link EXCEPT !.toHouse = Tail(@)]
  <2>1. heard' \in Seq(Nat)
    BY <1>1, <1>2, <1>7, Kinds, Appended
  <2> HIDE DEF armed
  <2> QED
    BY <1>1, <1>2, <1>3, <1>7, <2>1, ReadsKeeps
<1>8. CASE /\ m.type = "result" /\ m.id \in DOMAIN pending /\ UNCHANGED heard
           /\ pending' = Without({m.id}) /\ outcome' = [outcome EXCEPT ![m.id] = m.ok]
           /\ host' = IF m.id = host.opening
                      THEN [armed EXCEPT !.opening = 0, !.open = m.ok = "ok"] ELSE armed
           /\ link' = [link EXCEPT !.toHouse = Tail(@)]
  <2> DEFINE id == m.id
             ok == m.ok
  <2>1. id \in Ids /\ ok \in {"ok", "failed"}
    BY <1>1, <1>8, Kinds
  <2>2. /\ ok = "ok" /\ id = host.opening => Opened
        /\ outcome[id] # "new"
    BY <1>1, <1>8 DEF Inv, NewsSound
  <2>3. pending' = Without({id}) /\ outcome' = [outcome EXCEPT ![id] = ok]
    BY <1>8
  <2>4. host' = IF id = host.opening THEN [armed EXCEPT !.opening = 0, !.open = (ok = "ok")] ELSE armed
    BY <1>8
  <2> HIDE DEF id, ok, armed
  <2>5. DOMAIN pending' = DOMAIN pending \ {id} /\ \A i \in DOMAIN pending' : pending'[i] = pending[i]
    BY <2>3 DEF Without
  <2>6. /\ outcome' \in [Ids -> Settled \cup {"new", "pending"}]
        /\ outcome'[id] = ok /\ \A i \in Ids \ {id} : outcome'[i] = outcome[i]
    BY <1>2, <2>1, <2>3 DEF Settled
  <2>7. /\ host' \in Hosts /\ host'.opening \in {0, host.opening}
        /\ host'.opening # 0 => host'.opening \in DOMAIN pending'
        /\ host'.open => host.open \/ Opened
    <3>1. CASE id = host.opening
      <4>1. host' = [armed EXCEPT !.opening = 0, !.open = (ok = "ok")]
        BY <2>4, <3>1
      <4>2. host' \in Hosts /\ host'.opening = 0 /\ (host'.open => ok = "ok")
        BY <1>3, <4>1 DEF Hosts
      <4> QED
        BY <2>2, <3>1, <4>2
    <3>2. CASE id # host.opening
      BY <1>2, <1>3, <2>4, <2>5, <3>2
    <3> QED
      BY <3>1, <3>2
  <2>8. \A i \in Ids : outcome'[i] = "new" <=> outcome[i] = "new"
    BY <2>1, <2>2, <2>6
  <2>9. \A i \in Ids : outcome'[i] = "pending" <=> i \in DOMAIN pending'
    BY <1>2, <2>1, <2>5, <2>6
  <2>10. heard' \in Seq(Nat) /\ DOMAIN pending' \subseteq DOMAIN pending
    BY <1>2, <1>8, <2>5
  <2> QED
    BY <1>1, <1>8, <2>5, <2>6, <2>7, <2>8, <2>9, <2>10, ReadsKeeps
<1>9. CASE /\ m.type = "result" /\ m.id \notin DOMAIN pending /\ UNCHANGED <<pending, outcome, heard>>
           /\ host' = armed /\ link' = [link EXCEPT !.toHouse = Tail(@)]
  <2> HIDE DEF armed
  <2> QED
    BY <1>1, <1>2, <1>3, <1>9, ReadsKeeps
<1> QED
  BY <1>5, <1>6, <1>7, <1>8, <1>9 DEF HouseReads


-----------------------------------------------------------------------------
(* The invariant holds in every state.                                     *)

LEMMA InitSound ==
  Init => Inv
<1> SUFFICES ASSUME Init PROVE Inv
  OBVIOUS
<1> DEFINE news == <<Starting>>
<1>1. Starting \in Messages /\ Starting.type = "child" /\ news \in Seq(Messages) /\ ToSet(news) = {Starting}
  BY Told, Few DEF Starting
<1>2. link = Fresh(news)
  BY DEF Init
<1> HIDE DEF news
<1>3. \A S : <<>> \in Seq(S) /\ ToSet(<<>>) = {}
  BY Nothing
<1>4. /\ link \in Links /\ link.up /\ ~link.closing /\ link.toHouse = news /\ link.toBeing = <<>>
  BY <1>1, <1>2, <1>3 DEF Links, Fresh
<1>5. /\ runner \in Runners /\ runner.buffer = <<>> /\ Len(runner.buffer) <= Cap
  BY <1>3, BoundsAreNumbers DEF Init, Runners
<1>6. child \in Children /\ ~child.open /\ host \in Hosts /\ ~host.open /\ host.opening = 0
  BY DEF Init, Children, Hosts
<1>7. running \in Seq(Ids) /\ ToSet(running) = {} /\ heard \in Seq(Nat)
  BY <1>3 DEF Init
<1>8. /\ runs \in [Ids -> Nat] /\ outcome \in [Ids -> {"new"}]
      /\ \A id \in Ids : runs[id] = 0 /\ outcome[id] = "new"
  BY DEF Init
<1>9. DOMAIN pending = {} /\ said = 0 /\ running = <<>>
  BY DEF Init
<1>10. Typed
  BY <1>4, <1>5, <1>6, <1>7, <1>8, <1>9 DEF Typed, HostTyped, BeingTyped
<1>11. PendingSound
  BY <1>6, <1>8, <1>9 DEF PendingSound
<1>12. LinesSound
  BY <1>4, <1>5, <1>6, <1>9 DEF LinesSound
<1>13. SentSound
  <2>1. \A id : ~Sent(id)
    BY <1>3, <1>4 DEF Sent
  <2>2. IsInjective(link.toBeing)
    BY <1>4 DEF IsInjective
  <2>3. ASSUME NEW id \in Ids PROVE Within(id)
    BY <1>8, <2>1 DEF Within
  <2> QED
    BY <1>9, <2>2, <2>3 DEF SentSound
<1>14. NewsSound
  <2>1. InFlight = {Starting}
    BY <1>1, <1>3, <1>4, <1>5 DEF InFlight
  <2> QED
    BY <1>1, <1>6, <1>7, <2>1 DEF NewsSound
<1> QED
  BY <1>10, <1>11, <1>12, <1>13, <1>14 DEF Inv

LEMMA StepSound ==
  Inv /\ [Next]_vars => Inv'
<1> SUFFICES ASSUME Inv, [Next]_vars PROVE Inv'
  OBVIOUS
<1>1. CASE UNCHANGED vars
  <2>1. UNCHANGED <<host, pending, outcome, link, runner, child, running, runs, said, heard>>
    BY <1>1 DEF vars
  <2>2. runner' \in Runners /\ link' \in Links /\ child' \in Children
    BY <2>1 DEF Inv, Typed, BeingTyped
  <2>3. LinesSound' /\ InFlight' = InFlight /\ (Opened => Opened')
    BY <2>1 DEF Inv, LinesSound, InFlight, Opened
  <2> QED
    BY <2>1, <2>2, <2>3, LineChanges
<1>2. CASE ChildReady \/ ChildExits \/ Incoming \/ BeingReads
  BY <1>2, ChildReadyKeeps, ChildExitsKeeps, IncomingKeeps, BeingReadsKeeps
<1>3. CASE \E k \in DOMAIN running : ChildAnswers(k)
  BY <1>3, ChildAnswersKeeps
<1>4. CASE Poll \/ Drop \/ Connect \/ BeingRestarts
  BY <1>4, PollKeeps, DropKeeps, ConnectKeeps, BeingRestartsKeeps
<1>5. CASE CallTool \/ HouseSeesClose \/ HouseReads
  BY <1>5, CallToolKeeps, HouseSeesCloseKeeps, HouseReadsKeeps
<1>6. CASE \E id \in DOMAIN pending : TimesOut(id)
  BY <1>6, TimesOutKeeps
<1> QED
  BY <1>1, <1>2, <1>3, <1>4, <1>5, <1>6 DEF Next

LEMMA AlwaysSound ==
  Spec => []Inv
BY InitSound, StepSound, PTL DEF Spec

(* Every reachable state is well-typed, for any buffer and number of calls *)
(* and openings: what the handlers of both sides write, and nothing else.  *)
THEOREM TypesKept ==
  Spec => []Typed
<1>1. Inv => Typed
  BY DEF Inv
<1> QED
  BY <1>1, AlwaysSound, PTL

(* The house's two maps agree: a request is in its map while its promise   *)
(* is open, and the runner's buffer stays within its cap.                  *)
LEMMA MapsAgree ==
  Inv => TypeOK
<1> SUFFICES ASSUME Inv PROVE TypeOK
  OBVIOUS
<1>1. host \in Hosts /\ child \in Children /\ PendingSound /\ LinesSound
  BY DEF Inv, Typed, HostTyped, BeingTyped
<1>2. host.opening \in {0} \cup (Opens \cap DOMAIN pending)
  BY <1>1 DEF Hosts, PendingSound
<1> QED
  BY <1>1, <1>2 DEF TypeOK, Hosts, Children, PendingSound, LinesSound

(* However often the connection breaks, whatever restarts, and however     *)
(* late a first result is: the one retry of wireDetached and               *)
(* retryParkedCalls does no call more than twice, and opens no room twice. *)
THEOREM DoneTwice ==
  Spec => []DoneTwiceAtMost
<1>1. ASSUME Inv PROVE DoneTwiceAtMost
  <2>1. ASSUME NEW id \in Ids PROVE runs[id] <= IF id \in Opens THEN 1 ELSE 2
    <3>1. Within(id)
      BY <1>1 DEF Inv, SentSound
    <3> QED
      BY <3>1 DEF Within, Once
  <2> QED
    BY <2>1 DEF DoneTwiceAtMost
<1> QED
  BY <1>1, AlwaysSound, PTL

(* Once all was read, a room the house takes for open is open at the       *)
(* being's child, unless that child restarted under the same attachment:   *)
(* the openings of before an attachment are not believed after it.         *)
THEOREM OpenStaysTrue ==
  Spec => []OpenAfterReattach
<1>1. ASSUME Inv PROVE OpenAfterReattach
  BY <1>1 DEF Inv, NewsSound, Opened, OpenAfterReattach, OpenIsOpen, Quiet
<1> QED
  BY <1>1, AlwaysSound, PTL

(* The three that a run checks as one, over every connection, runner,      *)
(* child and house.                                                        *)
THEOREM RemoteIsSound ==
  Spec => []RemoteSound
<1>1. Inv => TypeOK
  BY MapsAgree
<1>2. TypeOK /\ DoneTwiceAtMost /\ OpenAfterReattach => RemoteSound
  BY DEF RemoteSound
<1>3. Spec => []TypeOK
  BY <1>1, AlwaysSound, PTL
<1> QED
  BY <1>2, <1>3, DoneTwice, OpenStaysTrue, PTL

-----------------------------------------------------------------------------
(* The cardinality DreamWorker counts with is the one of the theorems.     *)
LEMMA SameSizeW == \A S : W!Cardinality(S) = Cardinality(S)
  BY DEF W!Cardinality, Cardinality

(* The lane of the remote renderer: who is rendered and who is queued.     *)
Lanes == [active : SUBSET Nat, queue : Seq(Nat)]
Apart(l) ==
  /\ l \in Lanes /\ IsFiniteSet(l.active)
  /\ \A i \in 1 .. Len(l.queue) : l.queue[i] \notin l.active
  /\ \A i, k \in 1 .. Len(l.queue) : l.queue[i] = l.queue[k] => i = k
LaneKept(l) ==
  /\ Apart(l) /\ Cardinality(l.active) <= GpuMax /\ Len(l.queue) <= GpuQueue
  /\ l.queue # <<>> => Cardinality(l.active) = GpuMax
(* Before _drain: a slot may be free, one at most if several are queued.   *)
LaneLoose(l) ==
  /\ Apart(l) /\ Cardinality(l.active) <= GpuMax /\ Len(l.queue) <= GpuQueue
  /\ l.queue # <<>> => Cardinality(l.active) + 1 >= GpuMax \/ Len(l.queue) = 1

Stands(l, j) == j \in l.active \/ \E i \in 1 .. Len(l.queue) : l.queue[i] = j

(* _drain keeps everyone and leaves no slot free before a queue.           *)
LEMMA DrainedKept ==
  ASSUME NEW l, LaneLoose(l)
  PROVE  /\ LaneKept(W!Drained(l))
         /\ \A j : Stands(W!Drained(l), j) <=> Stands(l, j)
<1> DEFINE q == l.queue
           h == Head(q)
           d == [active |-> l.active \cup {h}, queue |-> Tail(q)]
<1>1. /\ l \in Lanes /\ q \in Seq(Nat) /\ l.active \subseteq Nat /\ Len(q) \in Nat
      /\ IsFiniteSet(l.active) /\ Cardinality(l.active) \in Nat
  BY FS_CardinalityType DEF LaneLoose, Apart, Lanes
<1>2. CASE ~(q # <<>> /\ Cardinality(l.active) < GpuMax)
  <2>1. W!Drained(l) = l
    BY <1>2, SameSizeW DEF W!Drained
  <2>2. LaneKept(l)
    BY <1>1, <1>2, FilesAssumption DEF LaneLoose, LaneKept
  <2> QED
    BY <2>1, <2>2
<1>3. CASE q # <<>> /\ Cardinality(l.active) < GpuMax
  <2>1. W!Drained(l) = d
    BY <1>3, SameSizeW DEF W!Drained
  <2>2. /\ h \in Nat /\ h = q[1] /\ Tail(q) \in Seq(Nat) /\ Len(Tail(q)) = Len(q) - 1 /\ Len(q) >= 1
        /\ \A i \in 1 .. Len(Tail(q)) : Tail(q)[i] = q[i + 1]
    BY <1>1, <1>3, HeadTailProperties
  <2>3. d.active = l.active \cup {h} /\ d.queue = Tail(q) /\ d \in Lanes
    BY <1>1, <2>2 DEF Lanes
  <2> HIDE DEF d, h
  <2>4. h \notin l.active /\ \A i \in 1 .. Len(Tail(q)) : Tail(q)[i] \notin l.active /\ Tail(q)[i] # h
    BY <1>1, <2>2 DEF LaneLoose, Apart
  <2>5. \A i, k \in 1 .. Len(Tail(q)) : Tail(q)[i] = Tail(q)[k] => i = k
    <3> SUFFICES ASSUME NEW i \in 1 .. Len(Tail(q)), NEW k \in 1 .. Len(Tail(q)), Tail(q)[i] = Tail(q)[k]
                 PROVE  i = k
      OBVIOUS
    <3>1. i + 1 \in 1 .. Len(q) /\ k + 1 \in 1 .. Len(q) /\ q[i + 1] = q[k + 1]
      BY <1>1, <2>2
    <3>2. i + 1 = k + 1
      BY <3>1 DEF LaneLoose, Apart
    <3> QED
      BY <3>2
  <2>6. Cardinality(l.active \cup {h}) = Cardinality(l.active) + 1 /\ IsFiniteSet(l.active \cup {h})
    BY <1>1, <2>4, FS_AddElement
  <2>7. Apart(d)
    BY <2>3, <2>4, <2>5, <2>6 DEF Apart
  <2>8. Tail(q) # <<>> => Cardinality(l.active) + 1 >= GpuMax
    <3>1. Tail(q) # <<>> => Len(Tail(q)) # 0
      BY <2>2, EmptySeq
    <3> QED
      BY <1>1, <2>2, <3>1 DEF LaneLoose
  <2>9. LaneKept(d)
    BY <1>1, <1>3, <2>2, <2>3, <2>6, <2>7, <2>8, FilesAssumption DEF LaneKept, LaneLoose
  <2>10. ASSUME NEW j PROVE Stands(d, j) <=> Stands(l, j)
    <3>1. Stands(d, j) <=> j \in l.active \/ j = h \/ \E i \in 1 .. Len(Tail(q)) : Tail(q)[i] = j
      BY <2>3 DEF Stands
    <3>2. (\E i \in 1 .. Len(q) : q[i] = j) <=> j = h \/ \E i \in 1 .. Len(Tail(q)) : Tail(q)[i] = j
      <4>1. ASSUME NEW i \in 1 .. Len(q), q[i] = j PROVE j = h \/ \E k \in 1 .. Len(Tail(q)) : Tail(q)[k] = j
        <5>1. CASE i = 1
          BY <2>2, <4>1, <5>1
        <5>2. CASE i # 1
          <6>1. i - 1 \in 1 .. Len(Tail(q)) /\ (i - 1) + 1 = i
            BY <1>1, <2>2, <4>1, <5>2
          <6>2. Tail(q)[i - 1] = j
            BY <2>2, <4>1, <6>1
          <6> QED
            BY <6>1, <6>2
        <5> QED
          BY <5>1, <5>2
      <4>2. ASSUME NEW i \in 1 .. Len(Tail(q)), Tail(q)[i] = j PROVE \E k \in 1 .. Len(q) : q[k] = j
        <5>1. i + 1 \in 1 .. Len(q) /\ q[i + 1] = j
          BY <1>1, <2>2, <4>2
        <5> QED
          BY <5>1
      <4>3. h = q[1] /\ 1 \in 1 .. Len(q)
        BY <1>1, <2>2
      <4> QED
        BY <4>1, <4>2, <4>3
    <3> QED
      BY <1>1, <3>1, <3>2 DEF Stands
  <2> QED
    BY <2>1, <2>9, <2>10
<1> QED
  BY <1>2, <1>3

(* Lane.run: what is queued is moved on if there is a slot.                *)
LEMMA JoinsKept ==
  ASSUME NEW l, LaneKept(l), NEW j \in Nat,
         ~Stands(l, j), Len(l.queue) < GpuQueue
  PROVE  /\ LaneKept(W!Drained([l EXCEPT !.queue = Append(@, j)]))
         /\ \A i : Stands(W!Drained([l EXCEPT !.queue = Append(@, j)]), i) <=> Stands(l, i) \/ i = j
<1> DEFINE q == l.queue
           w == Append(q, j)
           d == [l EXCEPT !.queue = Append(@, j)]
<1>1. /\ l \in Lanes /\ q \in Seq(Nat) /\ Len(q) \in Nat /\ Cardinality(l.active) \in Nat
  BY FS_CardinalityType DEF LaneKept, Apart, Lanes
<1>2. w \in Seq(Nat) /\ Len(w) = Len(q) + 1 /\ w[Len(q) + 1] = j /\ \A i \in 1 .. Len(q) : w[i] = q[i]
  BY <1>1, AppendProperties
<1>3. d.active = l.active /\ d.queue = w /\ d \in Lanes
  BY <1>1, <1>2 DEF Lanes
<1>4. W!Drained([l EXCEPT !.queue = Append(@, j)]) = W!Drained(d)
  OBVIOUS
<1> HIDE DEF d, w
<1>5. j \notin l.active /\ \A i \in 1 .. Len(q) : q[i] # j
  BY <1>1 DEF Stands
<1>6. Apart(d)
  <2>1. \A i \in 1 .. Len(w) : w[i] \notin l.active
    <3>1. \A i \in 1 .. Len(w) : i \in 1 .. Len(q) \/ i = Len(q) + 1
      BY <1>1, <1>2
    <3>2. \A i \in 1 .. Len(q) : q[i] \notin l.active
      BY DEF LaneKept, Apart
    <3> QED
      BY <1>2, <1>5, <3>1, <3>2
  <2>2. \A i, k \in 1 .. Len(w) : w[i] = w[k] => i = k
    <3> SUFFICES ASSUME NEW i \in 1 .. Len(w), NEW k \in 1 .. Len(w), w[i] = w[k] PROVE i = k
      OBVIOUS
    <3>1. (i \in 1 .. Len(q) \/ i = Len(q) + 1) /\ (k \in 1 .. Len(q) \/ k = Len(q) + 1)
      BY <1>1, <1>2
    <3> QED
      BY <1>1, <1>2, <1>5, <3>1 DEF LaneKept, Apart
  <2> QED
    BY <1>1, <1>3, <2>1, <2>2 DEF LaneKept, Apart
<1>7. LaneLoose(d)
  <2>1. Len(q) + 1 <= GpuQueue
    BY <1>1, FilesAssumption
  <2>2. Cardinality(l.active) + 1 >= GpuMax \/ Len(w) = 1
    <3>1. CASE q = <<>>
      BY <1>1, <1>2, <3>1
    <3>2. CASE q # <<>>
      BY <1>1, <3>2 DEF LaneKept
    <3> QED
      BY <3>1, <3>2
  <2> QED
    BY <1>1, <1>2, <1>3, <1>6, <2>1, <2>2 DEF LaneLoose, LaneKept
<1>8. ASSUME NEW i PROVE Stands(d, i) <=> Stands(l, i) \/ i = j
  <2>1. (\E k \in 1 .. Len(w) : w[k] = i) <=> i = j \/ \E k \in 1 .. Len(q) : q[k] = i
    <3>1. \A k \in 1 .. Len(w) : k \in 1 .. Len(q) \/ k = Len(q) + 1
      BY <1>1, <1>2
    <3>2. Len(q) + 1 \in 1 .. Len(w) /\ \A k \in 1 .. Len(q) : k \in 1 .. Len(w)
      BY <1>1, <1>2
    <3> QED
      BY <1>2, <3>1, <3>2
  <2> QED
    BY <1>1, <1>3, <2>1 DEF Stands
<1> QED
  BY <1>4, <1>7, <1>8, DrainedKept

(* A job that is done leaves its slot to the next one.                     *)
LEMMA LeavesKept ==
  ASSUME NEW l, LaneKept(l), NEW j, j \in l.active
  PROVE  /\ LaneKept(W!Drained([l EXCEPT !.active = @ \ {j}]))
         /\ \A i : Stands(W!Drained([l EXCEPT !.active = @ \ {j}]), i) <=> Stands(l, i) /\ i # j
<1> DEFINE q == l.queue
           d == [l EXCEPT !.active = @ \ {j}]
<1>1. /\ l \in Lanes /\ q \in Seq(Nat) /\ Len(q) \in Nat /\ Cardinality(l.active) \in Nat
      /\ IsFiniteSet(l.active)
  BY FS_CardinalityType DEF LaneKept, Apart, Lanes
<1>2. d.active = l.active \ {j} /\ d.queue = q /\ d \in Lanes
  BY <1>1 DEF Lanes
<1>3. W!Drained([l EXCEPT !.active = @ \ {j}]) = W!Drained(d)
  OBVIOUS
<1> HIDE DEF d
<1>4. Cardinality(l.active \ {j}) = Cardinality(l.active) - 1 /\ IsFiniteSet(l.active \ {j})
  BY <1>1, FS_RemoveElement
<1>5. Apart(d)
  BY <1>1, <1>2, <1>4 DEF LaneKept, Apart
<1>6. LaneLoose(d)
  BY <1>1, <1>2, <1>4, <1>5, FilesAssumption DEF LaneKept, LaneLoose
<1>7. ASSUME NEW i PROVE Stands(d, i) <=> Stands(l, i) /\ i # j
  <2>1. \A k \in 1 .. Len(q) : q[k] # j
    BY <1>1 DEF LaneKept, Apart
  <2> QED
    BY <1>1, <1>2, <2>1 DEF Stands
<1> QED
  BY <1>3, <1>6, <1>7, DrainedKept

(* The remote renderer and the bridge's calls of it.                       *)
Ended == {"picture", "failed", "lost"}
Renders == [of : W!Recordings, end : Ended \cup {"none"}]
CallStates == {"sending", "waiting", "picture", "failed", "rejected"}
Answers == {"none", "picture", "failed", "rejected"}
DreamCalls == [of : W!Recordings \cup {0}, state : CallStates, tries : {1, 2}, render : Nat, how : Answers]

(* A call that waits, waits for a render of what it asked, which goes on   *)
(* or was lost; one with a picture has one that was rendered of that.      *)
Fits(c, rs) ==
  /\ c.state = "waiting" /\ c.how = "none" =>
       c.render \in 1 .. Len(rs) /\ rs[c.render].of = c.of /\ rs[c.render].end \in {"none", "lost"}
  /\ c.how = "picture" => c.render \in 1 .. Len(rs) /\ rs[c.render].of = c.of /\ rs[c.render].end = "picture"
  /\ c.state = "picture" => c.how = "picture"
Asking == {c \in 1 .. Len(calls) :
              calls[c].state = "waiting" /\ calls[c].how = "none" /\ renders[calls[c].render].end = "none"}
CallsFit == calls \in Seq(DreamCalls) /\ \A n \in 1 .. Len(calls) : Fits(calls[n], renders)
RendersFit ==
  /\ renders \in Seq(Renders) /\ rendering \in [W!Recordings -> Nat]
  /\ \A k \in W!Recordings : rendering[k] # 0 =>
       rendering[k] \in 1 .. Len(renders) /\ renders[rendering[k]].of = k /\ renders[rendering[k]].end = "none"
  /\ \A j \in 1 .. Len(renders) : renders[j].end = "none" => rendering[renders[j].of] = j
(* A picture that is kept is of nothing that is being rendered.            *)
KeptFit ==
  /\ kept \in Seq(Nat)
  /\ \A i \in 1 .. Len(kept) : kept[i] \in 1 .. Len(renders) /\ renders[kept[i]].end = "picture"
                               /\ rendering[renders[kept[i]].of] = 0
LaneFit == LaneKept(lane) /\ \A j : Stands(lane, j) <=> j \in 1 .. Len(renders) /\ renders[j].end = "none"
CountFit == inFlightRequests \in Nat /\ Cardinality(Asking) <= inFlightRequests
WorkerKept == CallsFit /\ RendersFit /\ KeptFit /\ LaneFit /\ CountFit

(* The calls that wait are finitely many.                                  *)
LEMMA WaitingFinite ==
  ASSUME CallsFit
  PROVE  IsFiniteSet(Asking) /\ Cardinality(Asking) \in Nat
<1>1. Len(calls) \in Int /\ 1 \in Int
  BY LenProperties DEF CallsFit
<1>2. IsFiniteSet(1 .. Len(calls)) /\ Asking \subseteq 1 .. Len(calls)
  BY <1>1, FS_Interval DEF Asking
<1>3. IsFiniteSet(Asking)
  BY <1>2, FS_Subset
<1> QED
  BY <1>3, FS_CardinalityType

(* Fewer wait: the count still covers them.                                *)
LEMMA CountCovers ==
  ASSUME CallsFit, CountFit, Asking' \subseteq Asking, inFlightRequests' = inFlightRequests
  PROVE  CountFit'
<1>1. IsFiniteSet(Asking) /\ Cardinality(Asking) \in Nat
  BY WaitingFinite
<1>2. IsFiniteSet(Asking') /\ Cardinality(Asking') <= Cardinality(Asking)
  BY <1>1, FS_Subset
<1>3. Cardinality(Asking') \in Nat
  BY <1>2, FS_CardinalityType
<1> QED
  BY <1>1, <1>2, <1>3 DEF CountFit

(* One call changes, renders at most come to be.                           *)
LEMMA OneCallMoves ==
  ASSUME CallsFit, NEW c \in 1 .. Len(calls), NEW x \in DreamCalls, calls' = [calls EXCEPT ![c] = x],
         Len(renders) \in Nat, Len(renders') \in Nat, Len(renders) <= Len(renders'),
         \A n \in 1 .. Len(renders) : renders'[n] = renders[n], Fits(x, renders')
  PROVE  /\ CallsFit' /\ Len(calls') = Len(calls) /\ calls'[c] = x
         /\ \A n \in 1 .. Len(calls) : n # c => calls'[n] = calls[n]
         /\ Asking' \subseteq Asking \cup {c}
         /\ ~(x.state = "waiting" /\ x.how = "none") => Asking' \subseteq Asking
<1>1. calls \in [1 .. Len(calls) -> DreamCalls] /\ Len(calls) \in Nat
  BY LenProperties DEF CallsFit
<1>2. calls' \in [1 .. Len(calls) -> DreamCalls] /\ calls'[c] = x /\ \A n \in 1 .. Len(calls) : n # c => calls'[n] = calls[n]
  BY <1>1
<1>3. calls' \in Seq(DreamCalls) /\ Len(calls') = Len(calls)
  BY <1>1, <1>2, IsASeq, LenProperties
<1>4. ASSUME NEW n \in 1 .. Len(calls') PROVE Fits(calls'[n], renders')
  <2>1. CASE n = c
    BY <1>2, <2>1
  <2>2. CASE n # c
    <3>1. calls'[n] = calls[n] /\ Fits(calls[n], renders)
      BY <1>2, <1>3, <2>2 DEF CallsFit
    <3>2. \A j \in 1 .. Len(renders) : j \in 1 .. Len(renders')
      OBVIOUS
    <3> QED
      BY <3>1, <3>2 DEF Fits
  <2> QED
    BY <2>1, <2>2
<1>5. ASSUME NEW n \in Asking', n # c PROVE n \in Asking
  <2>1. n \in 1 .. Len(calls) /\ calls'[n].state = "waiting" /\ calls'[n].how = "none" /\ renders'[calls'[n].render].end = "none"
    BY <1>3, <1>5 DEF Asking
  <2>2. calls'[n] = calls[n]
    BY <1>2, <1>5, <2>1
  <2>3. Fits(calls[n], renders)
    BY <2>1 DEF CallsFit
  <2>4. calls[n].render \in 1 .. Len(renders)
    BY <2>1, <2>2, <2>3 DEF Fits
  <2> QED
    BY <2>1, <2>2, <2>4 DEF Asking
<1>6. ASSUME c \in Asking' PROVE x.state = "waiting" /\ x.how = "none"
  BY <1>2, <1>6 DEF Asking
<1> QED
  BY <1>2, <1>3, <1>4, <1>5, <1>6 DEF CallsFit

(* renderViaDream: one call more.                                          *)
LEMMA AsksKeep == ASSUME WorkerKept, NEW k \in W!Recordings \cup {0}, W!renderViaDream(k) PROVE WorkerKept'
<1> DEFINE x == [of |-> k, state |-> "sending", tries |-> 1, render |-> 0, how |-> "none"]
<1>1. calls' = Append(calls, x) /\ UNCHANGED <<renders, rendering, kept, lane, inFlightRequests>>
  BY DEF W!renderViaDream
<1>2. x \in DreamCalls /\ x.state = "sending" /\ x.how = "none"
  BY DEF DreamCalls, CallStates, Answers
<1> HIDE DEF x
<1>3. calls \in Seq(DreamCalls) /\ Len(calls) \in Nat /\ CallsFit
  BY LenProperties DEF WorkerKept, CallsFit
<1>4. /\ calls' \in Seq(DreamCalls) /\ Len(calls') = Len(calls) + 1 /\ calls'[Len(calls) + 1] = x
      /\ \A n \in 1 .. Len(calls) : calls'[n] = calls[n]
  BY <1>1, <1>2, <1>3, AppendProperties
<1>5. \A n \in 1 .. Len(calls') : n \in 1 .. Len(calls) \/ n = Len(calls) + 1
  BY <1>3, <1>4
<1>6. ASSUME NEW n \in 1 .. Len(calls') PROVE Fits(calls'[n], renders)
  <2>1. CASE n \in 1 .. Len(calls)
    BY <1>3, <1>4, <2>1 DEF CallsFit
  <2>2. CASE n = Len(calls) + 1
    BY <1>2, <1>4, <2>2 DEF Fits
  <2> QED
    BY <1>5, <2>1, <2>2
<1>7. Asking' \subseteq Asking
  BY <1>1, <1>2, <1>4, <1>5 DEF Asking
<1>8. CountFit'
  BY <1>1, <1>3, <1>7, CountCovers DEF WorkerKept
<1> QED
  BY <1>1, <1>4, <1>6, <1>8 DEF WorkerKept, CallsFit, RendersFit, KeptFit, LaneFit

(* The bridge's end of a call: it tries again, gives up, has its answer;   *)
(* or a worker that drains refuses it.                                     *)
LEMMA BridgeKeeps ==
  ASSUME WorkerKept, NEW c \in 1 .. Len(calls), W!TriesAgain(c) \/ W!GivesUp(c) \/ W!Delivers(c) \/ W!ShuttingDown(c)
  PROVE  WorkerKept'
<1>1. UNCHANGED <<renders, rendering, kept, lane, inFlightRequests>>
  BY DEF W!TriesAgain, W!GivesUp, W!Delivers, W!ShuttingDown
<1>2. CallsFit /\ renders \in Seq(Renders) /\ Len(renders) \in Nat /\ calls[c] \in DreamCalls /\ Fits(calls[c], renders)
  BY LenProperties, ElementOfSeq DEF WorkerKept, CallsFit, RendersFit
<1>3. PICK x \in DreamCalls : calls' = [calls EXCEPT ![c] = x] /\ Fits(x, renders) /\ ~(x.state = "waiting" /\ x.how = "none")
  <2>1. CASE W!TriesAgain(c)
    <3> DEFINE x == [calls[c] EXCEPT !.state = "sending", !.tries = 2, !.render = 0, !.how = "none"]
    <3>1. calls' = [calls EXCEPT ![c] = x]
      BY <2>1 DEF W!TriesAgain
    <3>2. x \in DreamCalls /\ x.state = "sending" /\ x.how = "none"
      BY <1>2 DEF DreamCalls, CallStates, Answers
    <3> HIDE DEF x
    <3>3. Fits(x, renders)
      BY <3>2 DEF Fits
    <3> QED
      BY <3>1, <3>2, <3>3
  <2>2. CASE W!GivesUp(c)
    <3> DEFINE x == [calls[c] EXCEPT !.state = "failed", !.render = 0, !.how = "none"]
    <3>1. calls' = [calls EXCEPT ![c] = x]
      BY <2>2 DEF W!GivesUp, CallsFit
    <3>2. x \in DreamCalls /\ x.state = "failed" /\ x.how = "none"
      BY <1>2 DEF DreamCalls, CallStates, Answers
    <3> HIDE DEF x
    <3>3. Fits(x, renders)
      BY <3>2 DEF Fits
    <3> QED
      BY <3>1, <3>2, <3>3
  <2>3. CASE W!Delivers(c)
    <3> DEFINE x == [calls[c] EXCEPT !.state = calls[c].how]
    <3>1. calls' = [calls EXCEPT ![c] = x] /\ calls[c].how # "none"
      BY <2>3 DEF W!Delivers
    <3>2. x \in DreamCalls /\ x.state = calls[c].how /\ x.how = calls[c].how /\ x.render = calls[c].render /\ x.of = calls[c].of
          /\ x.state # "waiting"
      BY <1>2, <3>1 DEF DreamCalls, CallStates, Answers
    <3> HIDE DEF x
    <3>3. Fits(x, renders)
      BY <1>2, <3>2 DEF Fits
    <3> QED
      BY <3>1, <3>2, <3>3
  <2>4. CASE W!ShuttingDown(c)
    <3> DEFINE x == [calls[c] EXCEPT !.state = "waiting", !.how = "failed"]
    <3>1. calls' = [calls EXCEPT ![c] = x]
      BY <2>4 DEF W!ShuttingDown
    <3>2. x \in DreamCalls /\ x.state = "waiting" /\ x.how = "failed"
      BY <1>2 DEF DreamCalls, CallStates, Answers
    <3> HIDE DEF x
    <3>3. Fits(x, renders)
      BY <3>2 DEF Fits
    <3> QED
      BY <3>1, <3>2, <3>3
  <2> QED
    BY <2>1, <2>2, <2>3, <2>4
<1>4. CallsFit' /\ Asking' \subseteq Asking
  <2>1. Fits(x, renders') /\ Len(renders') \in Nat /\ Len(renders) <= Len(renders') /\ \A n \in 1 .. Len(renders) : renders'[n] = renders[n]
    BY <1>1, <1>2, <1>3
  <2> QED
    BY <1>2, <1>3, <2>1, OneCallMoves
<1>5. CountFit'
  BY <1>1, <1>4, CountCovers DEF WorkerKept
<1> QED
  BY <1>1, <1>4, <1>5 DEF WorkerKept, RendersFit, KeptFit, LaneFit

(* What a call is that the worker received.                                *)
LEMMA ReceivesIs ==
  ASSUME CallsFit, NEW c \in 1 .. Len(calls), NEW how \in Answers, NEW j \in Nat, W!Receives(c, how, j)
  PROVE  \E x \in DreamCalls :
           calls' = [calls EXCEPT ![c] = x] /\ x.of = calls[c].of /\ x.state = "waiting" /\ x.render = j /\ x.how = how
<1> DEFINE x == [calls[c] EXCEPT !.state = "waiting", !.render = j, !.how = how]
<1>1. calls[c] \in DreamCalls
  BY ElementOfSeq DEF CallsFit
<1>2. x \in DreamCalls /\ x.of = calls[c].of /\ x.state = "waiting" /\ x.render = j /\ x.how = how
  BY <1>1 DEF DreamCalls, CallStates
<1>3. calls' = [calls EXCEPT ![c] = x]
  BY DEF W!Receives
<1> QED
  BY <1>2, <1>3

(* What is kept, by its place.                                             *)
LEMMA KeptRange ==
  ASSUME KeptFit, NEW j
  PROVE  j \in W!Range(kept) <=> \E i \in 1 .. Len(kept) : kept[i] = j
<1>1. DOMAIN kept = 1 .. Len(kept)
  BY LenProperties DEF KeptFit
<1> QED
  BY <1>1 DEF W!Range

(* An answer at once: limited, refused, or from the cache.                 *)
LEMMA AnsweredKeeps ==
  ASSUME WorkerKept, NEW c \in 1 .. Len(calls), NEW how \in Answers \ {"none"}, NEW j \in Nat, W!Receives(c, how, j),
         UNCHANGED <<renders, rendering, lane>>,
         how = "picture" => j \in 1 .. Len(renders) /\ renders[j].of = calls[c].of /\ renders[j].end = "picture"
  PROVE  WorkerKept'
<1>1. CallsFit /\ Len(renders) \in Nat /\ UNCHANGED <<kept, inFlightRequests>>
  BY LenProperties DEF WorkerKept, RendersFit, W!Receives
<1>2. PICK x \in DreamCalls :
        calls' = [calls EXCEPT ![c] = x] /\ x.of = calls[c].of /\ x.state = "waiting" /\ x.render = j /\ x.how = how
  BY <1>1, ReceivesIs
<1>3. Fits(x, renders')
  BY <1>2 DEF Fits
<1>4. /\ ~(x.state = "waiting" /\ x.how = "none") /\ Len(renders') \in Nat /\ Len(renders) <= Len(renders')
      /\ \A n \in 1 .. Len(renders) : renders'[n] = renders[n]
  BY <1>1, <1>2
<1>5. calls' = [calls EXCEPT ![c] = x]
  BY <1>2
<1>6. CallsFit' /\ Asking' \subseteq Asking
  BY <1>1, <1>3, <1>4, <1>5, OneCallMoves
<1>7. CountFit'
  BY <1>1, <1>6, CountCovers DEF WorkerKept
<1> QED
  BY <1>1, <1>6, <1>7 DEF WorkerKept, RendersFit, KeptFit, LaneFit

(* Limited, no recording, a full queue: turned away; or from the cache.    *)
LEMMA AtOnceKeeps ==
  ASSUME WorkerKept, NEW c \in 1 .. Len(calls), W!Limits(c) \/ W!Refuses(c) \/ W!QueueFull(c) \/ W!FromCache(c)
  PROVE  WorkerKept'
<1>1. CASE W!Turned(c)
  <2>1. UNCHANGED <<renders, rendering, lane>> /\ W!Receives(c, "rejected", 0) /\ 0 \in Nat
    BY <1>1 DEF W!Turned
  <2>2. "rejected" \in Answers \ {"none"} /\ "rejected" # "picture"
    BY DEF Answers
  <2> QED
    BY <2>1, <2>2, AnsweredKeeps
<1>2. CASE W!FromCache(c)
  <2>1. PICK j \in W!Cached(calls[c].of) : W!Receives(c, "picture", j)
    BY <1>2 DEF W!FromCache
  <2>2. PICK i \in 1 .. Len(kept) : kept[i] = j
    BY <2>1, KeptRange DEF W!Cached, WorkerKept
  <2>3. j \in 1 .. Len(renders) /\ renders[j].end = "picture" /\ renders[j].of = calls[c].of /\ j \in Nat
    BY <2>1, <2>2 DEF W!Cached, WorkerKept, KeptFit
  <2>4. "picture" \in Answers \ {"none"} /\ UNCHANGED <<renders, rendering, lane>>
    BY <1>2 DEF Answers, W!FromCache
  <2> QED
    BY <2>1, <2>3, <2>4, AnsweredKeeps
<1> QED
  BY <1>1, <1>2 DEF W!Limits, W!Refuses, W!QueueFull

(* One more member.                                                        *)
LEMMA OneMoreMember ==
  ASSUME NEW S, IsFiniteSet(S), NEW x
  PROVE  /\ IsFiniteSet(S \cup {x}) /\ Cardinality(S \cup {x}) \in Nat
         /\ Cardinality(S \cup {x}) <= Cardinality(S) + 1
<1>1. Cardinality(S) \in Nat /\ IsFiniteSet(S \cup {x})
  BY FS_CardinalityType, FS_AddElement
<1>2. Cardinality(S \cup {x}) = IF x \in S THEN Cardinality(S) ELSE Cardinality(S) + 1
  BY FS_AddElement
<1> QED
  BY <1>1, <1>2

(* One more waits and is counted.                                          *)
LEMMA OneMoreWaits ==
  ASSUME CallsFit, CountFit, NEW c, Asking' \subseteq Asking \cup {c}, inFlightRequests' = inFlightRequests + 1
  PROVE  CountFit'
<1>1. IsFiniteSet(Asking) /\ Cardinality(Asking) \in Nat
  BY WaitingFinite
<1>2. IsFiniteSet(Asking \cup {c}) /\ Cardinality(Asking \cup {c}) <= Cardinality(Asking) + 1
  BY <1>1, OneMoreMember
<1>3. IsFiniteSet(Asking') /\ Cardinality(Asking') <= Cardinality(Asking \cup {c})
  BY <1>2, FS_Subset
<1>4. Cardinality(Asking') \in Nat /\ Cardinality(Asking \cup {c}) \in Nat
  BY <1>2, <1>3, FS_CardinalityType
<1> QED
  BY <1>1, <1>2, <1>3, <1>4 DEF CountFit

(* A call shares the render under way of what it asks.                     *)
LEMMA SharesKeeps == ASSUME WorkerKept, NEW c \in 1 .. Len(calls), W!Shares(c) PROVE WorkerKept'
<1>1. CallsFit /\ CountFit /\ Len(renders) \in Nat /\ calls[c] \in DreamCalls
  BY LenProperties, ElementOfSeq DEF WorkerKept, CallsFit, RendersFit
<1> DEFINE k == calls[c].of
           j == rendering[k]
<1>2. /\ W!Receives(c, "none", j) /\ k # 0 /\ j # 0 /\ UNCHANGED <<renders, rendering, lane>>
  BY DEF W!Shares, W!Uncached
<1>3. UNCHANGED kept /\ inFlightRequests' = inFlightRequests + 1
  BY <1>2 DEF W!Receives
<1>4. k \in W!Recordings
  BY <1>1, <1>2 DEF DreamCalls
<1>5. j \in 1 .. Len(renders) /\ renders[j].of = k /\ renders[j].end = "none" /\ j \in Nat
  BY <1>2, <1>4 DEF WorkerKept, RendersFit
<1>6. "none" \in Answers
  BY DEF Answers
<1>7. PICK x \in DreamCalls :
        calls' = [calls EXCEPT ![c] = x] /\ x.of = k /\ x.state = "waiting" /\ x.render = j /\ x.how = "none"
  BY <1>1, <1>2, <1>5, <1>6, ReceivesIs
<1>8. Fits(x, renders')
  BY <1>2, <1>5, <1>7 DEF Fits
<1>9. /\ calls' = [calls EXCEPT ![c] = x] /\ Len(renders') \in Nat /\ Len(renders) <= Len(renders')
      /\ \A n \in 1 .. Len(renders) : renders'[n] = renders[n]
  BY <1>1, <1>2, <1>7
<1>10. CallsFit' /\ Asking' \subseteq Asking \cup {c}
  BY <1>1, <1>8, <1>9, OneCallMoves
<1>11. CountFit'
  BY <1>1, <1>3, <1>10, OneMoreWaits
<1> QED
  BY <1>2, <1>3, <1>10, <1>11 DEF WorkerKept, RendersFit, KeptFit, LaneFit

(* A render is begun: of a recording that none is of, with no picture kept.*)
LEMMA BeginsKeeps == ASSUME WorkerKept, NEW c \in 1 .. Len(calls), W!Begins(c) PROVE WorkerKept'
<1>1. /\ CallsFit /\ CountFit /\ LaneKept(lane) /\ Len(renders) \in Nat /\ calls[c] \in DreamCalls
      /\ renders \in Seq(Renders) /\ rendering \in [W!Recordings -> Nat]
  BY LenProperties, ElementOfSeq DEF WorkerKept, CallsFit, RendersFit, LaneFit
<1> DEFINE k == calls[c].of
           j == Len(renders) + 1
           r == [of |-> k, end |-> "none"]
<1>2. /\ W!Receives(c, "none", j) /\ k # 0 /\ W!Cached(k) = {} /\ rendering[k] = 0 /\ ~W!Full
      /\ renders' = Append(renders, r) /\ rendering' = [rendering EXCEPT ![k] = j] /\ lane' = W!Joins(j)
  BY DEF W!Begins, W!Uncached
<1>3. UNCHANGED kept /\ inFlightRequests' = inFlightRequests + 1
  BY <1>2 DEF W!Receives
<1>4. k \in W!Recordings /\ r \in Renders /\ j \in Nat /\ "none" \in Answers
  BY <1>1, <1>2 DEF DreamCalls, Renders, Answers
<1>5. r.of = k /\ r.end = "none"
  OBVIOUS
<1> HIDE DEF r
<1>6. /\ renders' \in Seq(Renders) /\ Len(renders') = j /\ renders'[j] = r
      /\ \A n \in 1 .. Len(renders) : renders'[n] = renders[n]
  BY <1>1, <1>2, <1>4, AppendProperties
<1>7. PICK x \in DreamCalls :
        calls' = [calls EXCEPT ![c] = x] /\ x.of = k /\ x.state = "waiting" /\ x.render = j /\ x.how = "none"
  BY <1>1, <1>2, <1>4, ReceivesIs
<1> HIDE DEF k
<1>8. Fits(x, renders')
  <2>1. j \in 1 .. Len(renders')
    BY <1>1, <1>6
  <2> QED
    BY <1>5, <1>6, <1>7, <2>1 DEF Fits
<1>9. /\ calls' = [calls EXCEPT ![c] = x] /\ Len(renders') \in Nat /\ Len(renders) <= Len(renders')
  BY <1>1, <1>6, <1>7
<1>10. CallsFit' /\ Asking' \subseteq Asking \cup {c}
  BY <1>1, <1>6, <1>8, <1>9, OneCallMoves
<1>11. CountFit'
  BY <1>1, <1>3, <1>10, OneMoreWaits
<1>12. /\ rendering' \in [W!Recordings -> Nat] /\ rendering'[k] = j
       /\ \A m \in W!Recordings : m # k => rendering'[m] = rendering[m]
  BY <1>1, <1>2, <1>4
<1>13. \A n \in 1 .. Len(renders') : n \in 1 .. Len(renders) \/ n = j
  BY <1>1, <1>6
<1>14. \A n \in 1 .. Len(renders) : n \in 1 .. Len(renders') /\ n # j /\ renders[n] \in Renders
  BY <1>1, <1>6, ElementOfSeq
<1>15. RendersFit'
  <2>1. ASSUME NEW m \in W!Recordings, rendering'[m] # 0
        PROVE  rendering'[m] \in 1 .. Len(renders') /\ renders'[rendering'[m]].of = m /\ renders'[rendering'[m]].end = "none"
    <3>1. CASE m = k
      BY <1>5, <1>6, <1>1, <1>12, <3>1
    <3>2. CASE m # k
      BY <1>6, <1>12, <1>14, <2>1, <3>2 DEF WorkerKept, RendersFit
    <3> QED
      BY <3>1, <3>2
  <2>2. ASSUME NEW n \in 1 .. Len(renders'), renders'[n].end = "none" PROVE rendering'[renders'[n].of] = n
    <3>1. CASE n = j
      BY <1>5, <1>6, <1>12, <3>1
    <3>2. CASE n \in 1 .. Len(renders)
      <4>1. renders'[n] = renders[n] /\ rendering[renders[n].of] = n /\ renders[n].of \in W!Recordings /\ n # 0
        BY <1>6, <1>14, <2>2, <3>2 DEF WorkerKept, RendersFit, Renders
      <4> QED
        BY <1>2, <1>12, <4>1 DEF k
    <3> QED
      BY <1>13, <3>1, <3>2
  <2> QED
    BY <1>6, <1>12, <2>1, <2>2 DEF RendersFit
<1>16. KeptFit'
  <2>1. ASSUME NEW i \in 1 .. Len(kept) PROVE kept[i] \in 1 .. Len(renders') /\ renders'[kept[i]].end = "picture"
                                              /\ rendering'[renders'[kept[i]].of] = 0
    <3>1. kept[i] \in 1 .. Len(renders) /\ renders[kept[i]].end = "picture" /\ rendering[renders[kept[i]].of] = 0
      BY DEF WorkerKept, KeptFit
    <3>2. kept[i] \in W!Range(kept)
      BY KeptRange DEF WorkerKept
    <3>3. renders[kept[i]].of # k
      BY <1>2, <3>2 DEF W!Cached
    <3>4. renders[kept[i]].of \in W!Recordings
      BY <1>14, <3>1 DEF Renders
    <3> QED
      BY <1>6, <1>12, <1>14, <3>1, <3>3, <3>4
  <2> QED
    BY <1>3, <2>1 DEF WorkerKept, KeptFit
<1>17. LaneFit'
  <2>1. ~Stands(lane, j)
    BY <1>1 DEF WorkerKept, LaneFit
  <2>2. lane.queue \in Seq(Nat) /\ Len(lane.queue) \in Nat
    BY <1>1, LenProperties DEF LaneKept, Apart, Lanes
  <2>3. Len(lane.queue) < GpuQueue
    BY <1>2, <2>2, FilesAssumption DEF W!Full
  <2>4. lane' = W!Drained([lane EXCEPT !.queue = Append(@, j)])
    BY <1>2 DEF W!Joins
  <2>5. LaneKept(lane') /\ \A i : Stands(lane', i) <=> Stands(lane, i) \/ i = j
    BY <1>1, <1>4, <2>1, <2>3, <2>4, JoinsKept
  <2>6. ASSUME NEW i PROVE Stands(lane', i) <=> i \in 1 .. Len(renders') /\ renders'[i].end = "none"
    <3>1. CASE i = j
      <4>1. j \in 1 .. Len(renders')
        BY <1>1, <1>6
      <4> QED
        BY <1>5, <1>6, <2>5, <3>1, <4>1
    <3>2. CASE i # j
      <4>1. Stands(lane, i) <=> i \in 1 .. Len(renders) /\ renders[i].end = "none"
        BY DEF WorkerKept, LaneFit
      <4>2. i \in 1 .. Len(renders') <=> i \in 1 .. Len(renders)
        BY <1>13, <1>14, <3>2
      <4> QED
        BY <1>6, <2>5, <3>2, <4>1, <4>2
    <3> QED
      BY <3>1, <3>2
  <2> QED
    BY <2>5, <2>6 DEF LaneFit
<1> QED
  BY <1>10, <1>11, <1>15, <1>16, <1>17 DEF WorkerKept

(* Coalescer.run: whoever waits for the render has its end.                *)
LEMMA WaitersAreTold ==
  ASSUME WorkerKept, NEW j \in 1 .. Len(renders), renders[j].end = "none", NEW how \in {"picture", "failed"},
         Len(renders') = Len(renders), renders'[j].of = renders[j].of, renders'[j].end = how,
         \A n \in 1 .. Len(renders) : n # j => renders'[n] = renders[n],
         calls' = [c \in DOMAIN calls |-> IF W!Waits(c, j) THEN [calls[c] EXCEPT !.how = how] ELSE calls[c]],
         inFlightRequests' = inFlightRequests - W!Cardinality({c \in DOMAIN calls : W!Waits(c, j)})
  PROVE  CallsFit' /\ CountFit'
<1> DEFINE told == {c \in DOMAIN calls : W!Waits(c, j)}
<1>1. /\ CallsFit /\ calls \in Seq(DreamCalls) /\ Len(calls) \in Nat /\ DOMAIN calls = 1 .. Len(calls)
      /\ \A c \in 1 .. Len(calls) : calls[c] \in DreamCalls
  BY LenProperties, ElementOfSeq DEF WorkerKept, CallsFit
<1>2. ASSUME NEW c \in 1 .. Len(calls)
      PROVE  /\ calls'[c] \in DreamCalls /\ Fits(calls'[c], renders')
             /\ c \in Asking' => c \in Asking \ told
  <2>1. calls[c] \in DreamCalls /\ Fits(calls[c], renders)
    BY <1>1 DEF CallsFit
  <2>2. CASE W!Waits(c, j)
    <3> DEFINE x == [calls[c] EXCEPT !.how = how]
    <3>1. calls'[c] = x
      BY <1>1, <2>2
    <3>2. x \in DreamCalls /\ x.how = how /\ x.state = "waiting" /\ x.render = j /\ x.of = calls[c].of
      BY <2>1, <2>2 DEF DreamCalls, Answers, W!Waits
    <3> HIDE DEF x
    <3>3. renders[j].of = calls[c].of
      BY <2>1, <2>2 DEF Fits, W!Waits
    <3>4. Fits(x, renders')
      BY <3>2, <3>3 DEF Fits
    <3>5. c \notin Asking'
      BY <3>1, <3>2 DEF Asking
    <3> QED
      BY <3>1, <3>2, <3>4, <3>5
  <2>3. CASE ~W!Waits(c, j)
    <3>1. calls'[c] = calls[c]
      BY <1>1, <2>3
    <3>2. Fits(calls[c], renders')
      BY <2>1, <2>3 DEF Fits, W!Waits
    <3>3. ASSUME c \in Asking' PROVE c \in Asking \ told
      <4>1. calls[c].state = "waiting" /\ calls[c].how = "none" /\ renders'[calls[c].render].end = "none"
        BY <3>1, <3>3 DEF Asking
      <4>2. calls[c].render \in 1 .. Len(renders) /\ calls[c].render # j
        BY <2>1, <2>3, <4>1 DEF Fits, W!Waits
      <4>3. c \in Asking
        BY <4>1, <4>2 DEF Asking
      <4> QED
        BY <2>3, <4>3
    <3> QED
      BY <2>1, <3>1, <3>2, <3>3
  <2> QED
    BY <2>2, <2>3
<1>3. calls' \in Seq(DreamCalls) /\ Len(calls') = Len(calls)
  <2>1. DOMAIN calls' = 1 .. Len(calls) /\ calls' = [c \in 1 .. Len(calls) |-> calls'[c]]
    BY <1>1
  <2>2. calls' \in [1 .. Len(calls) -> DreamCalls]
    BY <1>2, <2>1
  <2> QED
    BY <1>1, <2>1, <2>2, IsASeq, LenProperties
<1>4. CallsFit'
  BY <1>2, <1>3 DEF CallsFit
<1>5. told \subseteq Asking
  <2>1. ASSUME NEW c \in 1 .. Len(calls), W!Waits(c, j) PROVE c \in Asking
    BY <2>1 DEF Asking, W!Waits
  <2> QED
    BY <1>1, <2>1
<1>6. Asking' \subseteq Asking \ told
  <2>1. \A c \in Asking' : c \in 1 .. Len(calls)
    BY <1>3 DEF Asking
  <2> QED
    BY <1>2, <2>1
<1>7. inFlightRequests' = inFlightRequests - Cardinality(told)
  BY SameSizeW
<1> HIDE DEF told
<1>8. IsFiniteSet(Asking) /\ Cardinality(Asking) \in Nat
  BY <1>1, WaitingFinite
<1>9. IsFiniteSet(told) /\ Cardinality(told) \in Nat
  BY <1>5, <1>8, FS_Subset, FS_CardinalityType
<1>10. Cardinality(Asking \ told) = Cardinality(Asking) - Cardinality(told) /\ IsFiniteSet(Asking \ told)
  <2>1. /\ IsFiniteSet(Asking \ told)
        /\ Cardinality(Asking \ told) = Cardinality(Asking) - Cardinality(Asking \cap told)
    BY <1>8, <1>9, FS_Difference
  <2>2. Asking \cap told = told
    BY <1>5
  <2> QED
    BY <2>1, <2>2
<1>11. Cardinality(Asking') <= Cardinality(Asking \ told) /\ IsFiniteSet(Asking')
  BY <1>6, <1>10, FS_Subset
<1>12. Cardinality(Asking') \in Nat
  BY <1>11, FS_CardinalityType
<1>13. inFlightRequests \in Nat /\ Cardinality(Asking) <= inFlightRequests
  BY DEF WorkerKept, CountFit
<1>14. inFlightRequests' \in Nat /\ Cardinality(Asking') <= inFlightRequests'
  BY <1>7, <1>8, <1>9, <1>10, <1>11, <1>12, <1>13
<1> QED
  BY <1>4, <1>14 DEF CountFit

(* The picture is kept behind the others, the oldest dropped if need be.   *)
LEMMA KeptGrows ==
  ASSUME KeptFit, NEW j \in Nat, NEW how
  PROVE  /\ W!Kept(j, how) \in Seq(Nat)
         /\ \A i \in 1 .. Len(W!Kept(j, how)) :
              (\E n \in 1 .. Len(kept) : W!Kept(j, how)[i] = kept[n]) \/ (how = "picture" /\ W!Kept(j, how)[i] = j)
<1> DEFINE base == IF Len(kept) >= CacheMax THEN Tail(kept) ELSE kept
<1>1. kept \in Seq(Nat) /\ Len(kept) \in Nat
  BY LenProperties DEF KeptFit
<1>2. CASE how # "picture"
  <2>1. W!Kept(j, how) = kept
    BY <1>2 DEF W!Kept
  <2> QED
    BY <1>1, <2>1
<1>3. base \in Seq(Nat) /\ Len(base) \in Nat /\ \A i \in 1 .. Len(base) : \E n \in 1 .. Len(kept) : base[i] = kept[n]
  <2>1. CASE Len(kept) >= CacheMax
    <3>1. Len(kept) # 0
      BY <1>1, <2>1, FilesAssumption
    <3>2. kept # <<>>
      BY <1>1, <3>1, EmptySeq
    <3>3. /\ Tail(kept) \in Seq(Nat) /\ Len(Tail(kept)) = Len(kept) - 1
          /\ \A i \in 1 .. Len(Tail(kept)) : Tail(kept)[i] = kept[i + 1]
      BY <1>1, <3>2, HeadTailProperties
    <3>4. \A i \in 1 .. Len(Tail(kept)) : i + 1 \in 1 .. Len(kept)
      BY <1>1, <3>3
    <3>5. Len(Tail(kept)) \in Nat
      BY <3>3, LenProperties
    <3>6. base = Tail(kept)
      BY <2>1
    <3> QED
      BY <3>3, <3>4, <3>5, <3>6
  <2>2. CASE ~(Len(kept) >= CacheMax)
    <3>1. base = kept
      BY <2>2
    <3> QED
      BY <1>1, <3>1
  <2> QED
    BY <2>1, <2>2
<1>4. CASE how = "picture"
  <2>1. W!Kept(j, how) = Append(base, j)
    BY <1>4 DEF W!Kept
  <2> HIDE DEF base
  <2>2. /\ Append(base, j) \in Seq(Nat) /\ Len(Append(base, j)) = Len(base) + 1 /\ Append(base, j)[Len(base) + 1] = j
        /\ \A i \in 1 .. Len(base) : Append(base, j)[i] = base[i]
    BY <1>3, AppendProperties
  <2>3. \A i \in 1 .. Len(Append(base, j)) : i \in 1 .. Len(base) \/ i = Len(base) + 1
    BY <1>3, <2>2
  <2> QED
    BY <1>3, <1>4, <2>1, <2>2, <2>3
<1> QED
  BY <1>2, <1>4

(* A render ends.                                                          *)
LEMMA EndsKeep ==
  ASSUME WorkerKept, NEW j \in 1 .. Len(renders), NEW how \in {"picture", "failed"}, W!RenderEnds(j, how)
  PROVE  WorkerKept'
<1>1. /\ renders \in Seq(Renders) /\ Len(renders) \in Nat /\ rendering \in [W!Recordings -> Nat] /\ KeptFit
      /\ LaneKept(lane) /\ \A n \in 1 .. Len(renders) : renders[n] \in Renders
  BY LenProperties, ElementOfSeq DEF WorkerKept, RendersFit, LaneFit
<1> DEFINE k == renders[j].of
<1>2. j \in lane.active /\ renders[j].end = "none" /\ rendering[k] = j /\ k \in W!Recordings
  <2>1. j \in lane.active
    BY DEF W!RenderEnds
  <2>2. renders[j].end = "none"
    BY <2>1 DEF WorkerKept, LaneFit, Stands
  <2> QED
    BY <1>1, <2>1, <2>2 DEF WorkerKept, RendersFit, Renders
<1>3. /\ renders' = [renders EXCEPT ![j].end = how] /\ rendering' = [rendering EXCEPT ![k] = 0]
      /\ kept' = W!Kept(j, how) /\ lane' = W!Leaves(j)
      /\ calls' = [c \in DOMAIN calls |-> IF W!Waits(c, j) THEN [calls[c] EXCEPT !.how = how] ELSE calls[c]]
      /\ inFlightRequests' = inFlightRequests - W!Cardinality({c \in DOMAIN calls : W!Waits(c, j)})
  BY DEF W!RenderEnds, W!Released
<1>4. /\ renders' \in Seq(Renders) /\ Len(renders') = Len(renders) /\ renders'[j].of = k /\ renders'[j].end = how
      /\ \A n \in 1 .. Len(renders) : n # j => renders'[n] = renders[n]
  <2>1. renders \in [1 .. Len(renders) -> Renders] /\ [renders[j] EXCEPT !.end = how] \in Renders
    BY <1>1, LenProperties DEF Renders, Ended
  <2>2. renders'[j].of = k /\ renders'[j].end = how
    BY <1>1, <1>3, <2>1 DEF Renders
  <2>3. renders' \in [1 .. Len(renders) -> Renders]
    BY <1>3, <2>1
  <2>4. \A n \in 1 .. Len(renders) : n # j => renders'[n] = renders[n]
    BY <1>3, <2>1
  <2>5. renders' \in Seq(Renders) /\ Len(renders') = Len(renders)
    BY <1>1, <2>3, IsASeq, LenProperties
  <2> QED
    BY <2>2, <2>4, <2>5
<1>5. CallsFit' /\ CountFit'
  BY <1>2, <1>3, <1>4, WaitersAreTold
<1> HIDE DEF k
<1>6. /\ rendering' \in [W!Recordings -> Nat] /\ rendering'[k] = 0
      /\ \A m \in W!Recordings : m # k => rendering'[m] = rendering[m]
  BY <1>1, <1>2, <1>3
<1>7. RendersFit'
  <2>1. ASSUME NEW m \in W!Recordings, rendering'[m] # 0
        PROVE  rendering'[m] \in 1 .. Len(renders') /\ renders'[rendering'[m]].of = m /\ renders'[rendering'[m]].end = "none"
    <3>1. m # k /\ rendering'[m] = rendering[m]
      BY <1>6, <2>1
    <3>2. rendering[m] \in 1 .. Len(renders) /\ renders[rendering[m]].of = m /\ renders[rendering[m]].end = "none"
      BY <2>1, <3>1 DEF WorkerKept, RendersFit
    <3>3. rendering[m] # j
      BY <3>1, <3>2 DEF k
    <3> QED
      BY <1>4, <3>1, <3>2, <3>3
  <2>2. ASSUME NEW n \in 1 .. Len(renders'), renders'[n].end = "none" PROVE rendering'[renders'[n].of] = n
    <3>1. n \in 1 .. Len(renders) /\ n # j
      BY <1>4, <2>2
    <3>2. renders'[n] = renders[n] /\ rendering[renders[n].of] = n /\ renders[n].of \in W!Recordings
      BY <1>1, <1>4, <2>2, <3>1 DEF WorkerKept, RendersFit, Renders
    <3>3. renders[n].of # k
      BY <1>2, <3>1, <3>2
    <3> QED
      BY <1>6, <3>2, <3>3
  <2> QED
    BY <1>4, <1>6, <2>1, <2>2 DEF RendersFit
<1>8. KeptFit'
  <2>1. /\ kept' \in Seq(Nat)
        /\ \A i \in 1 .. Len(kept') : (\E n \in 1 .. Len(kept) : kept'[i] = kept[n]) \/ (how = "picture" /\ kept'[i] = j)
    BY <1>1, <1>3, KeptGrows
  <2>2. ASSUME NEW i \in 1 .. Len(kept')
        PROVE  kept'[i] \in 1 .. Len(renders') /\ renders'[kept'[i]].end = "picture" /\ rendering'[renders'[kept'[i]].of] = 0
    <3>1. CASE how = "picture" /\ kept'[i] = j
      BY <1>4, <1>6, <3>1
    <3>2. ASSUME NEW n \in 1 .. Len(kept), kept'[i] = kept[n]
          PROVE  kept'[i] \in 1 .. Len(renders') /\ renders'[kept'[i]].end = "picture" /\ rendering'[renders'[kept'[i]].of] = 0
      <4>1. kept[n] \in 1 .. Len(renders) /\ renders[kept[n]].end = "picture" /\ rendering[renders[kept[n]].of] = 0
        BY <1>1 DEF KeptFit
      <4>2. kept[n] # j /\ renders'[kept[n]] = renders[kept[n]]
        BY <1>2, <1>4, <4>1
      <4>3. renders[kept[n]].of \in W!Recordings /\ renders[kept[n]].of # k
        BY <1>1, <1>2, <4>1 DEF Renders
      <4> QED
        BY <1>4, <1>6, <3>2, <4>1, <4>2, <4>3
    <3> QED
      BY <2>1, <3>1, <3>2
  <2> QED
    BY <2>1, <2>2 DEF KeptFit
<1>9. LaneFit'
  <2>1. lane' = W!Drained([lane EXCEPT !.active = @ \ {j}])
    BY <1>3 DEF W!Leaves
  <2>2. LaneKept(lane') /\ \A i : Stands(lane', i) <=> Stands(lane, i) /\ i # j
    BY <1>1, <1>2, <2>1, LeavesKept
  <2>3. ASSUME NEW i PROVE Stands(lane', i) <=> i \in 1 .. Len(renders') /\ renders'[i].end = "none"
    <3>1. Stands(lane, i) <=> i \in 1 .. Len(renders) /\ renders[i].end = "none"
      BY DEF WorkerKept, LaneFit
    <3> QED
      BY <1>4, <2>2, <3>1
  <2> QED
    BY <2>2, <2>3 DEF LaneFit
<1> QED
  BY <1>5, <1>7, <1>8, <1>9 DEF WorkerKept

(* A picture expires.                                                      *)
LEMMA ExpiresKeeps == ASSUME WorkerKept, W!Expires PROVE WorkerKept'
<1>1. kept # <<>> /\ kept' = Tail(kept) /\ UNCHANGED <<calls, renders, rendering, lane, inFlightRequests>>
  BY DEF W!Expires
<1>2. kept \in Seq(Nat) /\ Len(kept) \in Nat
  BY LenProperties DEF WorkerKept, KeptFit
<1>3. kept' \in Seq(Nat) /\ Len(kept') = Len(kept) - 1 /\ \A i \in 1 .. Len(kept') : kept'[i] = kept[i + 1]
  BY <1>1, <1>2, HeadTailProperties
<1>4. \A i \in 1 .. Len(kept') : i + 1 \in 1 .. Len(kept)
  BY <1>2, <1>3
<1>5. KeptFit'
  BY <1>1, <1>3, <1>4 DEF WorkerKept, KeptFit
<1>6. Asking' = Asking
  BY <1>1 DEF Asking
<1> QED
  BY <1>1, <1>5, <1>6 DEF WorkerKept, CallsFit, RendersFit, LaneFit, CountFit

(* An empty lane keeps nobody.                                             *)
LEMMA EmptyLane ==
  ASSUME NEW l, l = [active |-> {}, queue |-> <<>>]
  PROVE  LaneKept(l) /\ \A j : ~Stands(l, j)
<1>1. l.active = {} /\ l.queue = <<>> /\ <<>> \in Seq(Nat) /\ Len(<<>>) = 0
  BY EmptySeq
<1>2. l \in Lanes
  BY <1>1 DEF Lanes
<1>3. IsFiniteSet({}) /\ Cardinality({}) = 0
  BY FS_EmptySet
<1>4. ~\E i \in 1 .. 0 : TRUE
  OBVIOUS
<1>5. Apart(l)
  BY <1>1, <1>2, <1>3, <1>4 DEF Apart
<1>6. 0 <= GpuMax /\ 0 <= GpuQueue
  BY FilesAssumption
<1> QED
  BY <1>1, <1>3, <1>4, <1>5, <1>6 DEF LaneKept, Stands

(* The worker's end loses what is under way.                               *)
LEMMA GoesKeeps == ASSUME WorkerKept, W!Goes PROVE WorkerKept'
<1>1. /\ lane' = [active |-> {}, queue |-> <<>>] /\ rendering' = [k \in W!Recordings |-> 0] /\ kept' = <<>>
      /\ inFlightRequests' = 0 /\ UNCHANGED calls
      /\ renders' = [j \in DOMAIN renders |->
                       IF renders[j].end = "none" THEN [renders[j] EXCEPT !.end = "lost"] ELSE renders[j]]
  BY DEF W!Goes
<1>2. /\ renders \in Seq(Renders) /\ Len(renders) \in Nat /\ DOMAIN renders = 1 .. Len(renders)
      /\ \A n \in 1 .. Len(renders) : renders[n] \in Renders
  BY LenProperties, ElementOfSeq DEF WorkerKept, RendersFit
<1>3. ASSUME NEW n \in 1 .. Len(renders)
      PROVE  /\ renders'[n] \in Renders /\ renders'[n].end # "none" /\ renders'[n].of = renders[n].of
             /\ renders[n].end # "none" => renders'[n].end = renders[n].end
             /\ renders[n].end = "none" => renders'[n].end = "lost"
  <2>1. CASE renders[n].end = "none"
    <3>1. renders'[n] = [renders[n] EXCEPT !.end = "lost"]
      BY <1>1, <1>2, <2>1
    <3> QED
      BY <1>2, <2>1, <3>1 DEF Renders, Ended
  <2>2. CASE renders[n].end # "none"
    <3>1. renders'[n] = renders[n]
      BY <1>1, <1>2, <2>2
    <3> QED
      BY <1>2, <2>2, <3>1
  <2> QED
    BY <2>1, <2>2
<1>4. renders' \in Seq(Renders) /\ Len(renders') = Len(renders)
  <2>1. renders' = [n \in 1 .. Len(renders) |-> renders'[n]]
    BY <1>1, <1>2
  <2>2. renders' \in [1 .. Len(renders) -> Renders]
    BY <1>3, <2>1
  <2> QED
    BY <1>2, <2>2, IsASeq, LenProperties
<1>5. CallsFit'
  <2>1. ASSUME NEW n \in 1 .. Len(calls) PROVE Fits(calls[n], renders')
    <3>1. Fits(calls[n], renders)
      BY DEF WorkerKept, CallsFit
    <3> QED
      BY <1>3, <1>4, <3>1 DEF Fits
  <2> QED
    BY <1>1, <2>1 DEF WorkerKept, CallsFit
<1>6. RendersFit'
  <2>1. rendering' \in [W!Recordings -> Nat] /\ \A k \in W!Recordings : rendering'[k] = 0
    BY <1>1
  <2> QED
    BY <1>3, <1>4, <2>1 DEF RendersFit
<1>7. KeptFit'
  <2>1. <<>> \in Seq(Nat) /\ Len(<<>>) = 0 /\ ~\E i \in 1 .. 0 : TRUE
    BY EmptySeq
  <2> QED
    BY <1>1, <2>1 DEF KeptFit
<1>8. LaneFit'
  BY <1>1, <1>3, <1>4, EmptyLane DEF LaneFit
<1>9. CountFit'
  <2>1. ASSUME NEW c \in Asking' PROVE FALSE
    <3>1. c \in 1 .. Len(calls) /\ calls[c].state = "waiting" /\ calls[c].how = "none" /\ renders'[calls[c].render].end = "none"
      BY <1>1, <2>1 DEF Asking
    <3>2. calls[c].render \in 1 .. Len(renders)
      BY <3>1 DEF WorkerKept, CallsFit, Fits
    <3> QED
      BY <1>3, <3>1, <3>2
  <2>2. Asking' = {}
    BY <2>1
  <2>3. Cardinality({}) = 0
    BY FS_EmptySet
  <2> QED
    BY <1>1, <2>2, <2>3 DEF CountFit
<1> QED
  BY <1>5, <1>6, <1>7, <1>8, <1>9 DEF WorkerKept

(* At rest; a drain and a start change nothing of it.                      *)
LEMMA WorkerRest ==
  ASSUME WorkerKept, UNCHANGED <<calls, renders, rendering, kept, lane, inFlightRequests>>
  PROVE  WorkerKept'
<1>1. Asking' = Asking
  BY DEF Asking
<1> QED
  BY <1>1 DEF WorkerKept, CallsFit, RendersFit, KeptFit, LaneFit, CountFit

(* DreamWorker: every step.                                                *)
LEMMA WorkerNext == ASSUME WorkerKept, W!Next PROVE WorkerKept'
<1>1. DOMAIN calls = 1 .. Len(calls) /\ DOMAIN renders = 1 .. Len(renders)
  BY LenProperties DEF WorkerKept, CallsFit, RendersFit
<1>2. CASE \E k \in W!Recordings \cup {0} : W!renderViaDream(k)
  BY <1>2, AsksKeep
<1>3. ASSUME NEW c \in 1 .. Len(calls),
             \/ W!TriesAgain(c) \/ W!GivesUp(c) \/ W!Delivers(c) \/ W!ShuttingDown(c)
             \/ W!Limits(c) \/ W!Refuses(c) \/ W!FromCache(c) \/ W!Shares(c) \/ W!QueueFull(c) \/ W!Begins(c)
      PROVE  WorkerKept'
  BY <1>3, BridgeKeeps, AtOnceKeeps, SharesKeeps, BeginsKeeps
<1>4. ASSUME NEW j \in 1 .. Len(renders), W!RenderEnds(j, "picture") \/ W!RenderEnds(j, "failed") PROVE WorkerKept'
  <2>1. ASSUME NEW how \in {"picture", "failed"}, W!RenderEnds(j, how) PROVE WorkerKept'
    BY <2>1, EndsKeep
  <2> QED
    BY <1>4, <2>1
<1>5. CASE W!Expires
  BY <1>5, ExpiresKeeps
<1>6. CASE W!Exits \/ W!Dies
  BY <1>6, GoesKeeps DEF W!Exits, W!Dies
<1>7. CASE W!Drains \/ W!Starts
  <2>1. UNCHANGED <<calls, renders, rendering, kept, lane, inFlightRequests>>
    BY <1>7 DEF W!Drains, W!Starts
  <2> QED
    BY <2>1, WorkerRest
<1> QED
  BY <1>1, <1>2, <1>3, <1>4, <1>5, <1>6, <1>7 DEF W!Next

(* DreamWorker: the start.                                                 *)
LEMMA WorkerStart == ASSUME W!Init PROVE WorkerKept
<1>1. /\ calls = <<>> /\ renders = <<>> /\ rendering = [k \in W!Recordings |-> 0] /\ kept = <<>>
      /\ lane = [active |-> {}, queue |-> <<>>] /\ inFlightRequests = 0
  BY DEF W!Init
<1>2. Len(<<>>) = 0 /\ ~\E i \in 1 .. 0 : TRUE
  BY EmptySeq
<1>3. /\ <<>> \in Seq(DreamCalls) /\ <<>> \in Seq(Renders) /\ <<>> \in Seq(Nat)
  BY EmptySeq
<1>4. CallsFit
  BY <1>1, <1>2, <1>3 DEF CallsFit
<1>5. RendersFit
  <2>1. rendering \in [W!Recordings -> Nat] /\ \A k \in W!Recordings : rendering[k] = 0
    BY <1>1
  <2> QED
    BY <1>1, <1>2, <1>3, <2>1 DEF RendersFit
<1>6. KeptFit
  BY <1>1, <1>2, <1>3 DEF KeptFit
<1>7. LaneFit
  BY <1>1, <1>2, EmptyLane DEF LaneFit
<1>8. CountFit
  <2>1. Asking = {}
    BY <1>1, <1>2 DEF Asking
  <2>2. Cardinality({}) = 0
    BY FS_EmptySet
  <2> QED
    BY <1>1, <2>1, <2>2 DEF CountFit
<1> QED
  BY <1>4, <1>5, <1>6, <1>7, <1>8 DEF WorkerKept

(* What the invariant says of the worker.                                  *)
LEMMA WorkerIsSound == ASSUME WorkerKept PROVE W!WorkerSound
<1>1. /\ DOMAIN calls = 1 .. Len(calls) /\ DOMAIN renders = 1 .. Len(renders) /\ Len(renders) \in Nat
      /\ CallsFit /\ RendersFit /\ KeptFit /\ LaneFit /\ CountFit
  BY LenProperties DEF WorkerKept, CallsFit, RendersFit
<1>2. W!RenderedOnce
  <2> SUFFICES ASSUME NEW j \in 1 .. Len(renders), renders[j].end = "none"
               PROVE  /\ W!Cached(renders[j].of) = {}
                      /\ \A i \in 1 .. Len(renders) : renders[i].end = "none" /\ renders[i].of = renders[j].of => i = j
    BY <1>1 DEF W!RenderedOnce, W!Live
  <2>1. rendering[renders[j].of] = j /\ j # 0
    BY <1>1 DEF RendersFit
  <2>2. \A i \in 1 .. Len(renders) : renders[i].end = "none" /\ renders[i].of = renders[j].of => i = j
    BY <1>1, <2>1 DEF RendersFit
  <2>3. ASSUME NEW m \in W!Cached(renders[j].of) PROVE FALSE
    <3>1. m \in W!Range(kept) /\ renders[m].of = renders[j].of
      BY <2>3 DEF W!Cached
    <3>2. PICK i \in 1 .. Len(kept) : kept[i] = m
      BY <1>1, <3>1, KeptRange
    <3>3. rendering[renders[m].of] = 0
      BY <1>1, <3>2 DEF KeptFit
    <3> QED
      BY <2>1, <3>1, <3>3
  <2> QED
    BY <2>2, <2>3
<1>3. \A j : W!InLane(j) <=> Stands(lane, j)
  <2>1. DOMAIN lane.queue = 1 .. Len(lane.queue)
    BY <1>1, LenProperties DEF LaneFit, LaneKept, Apart, Lanes
  <2> QED
    BY <2>1 DEF W!InLane, W!Range, Stands
<1>4. W!NobodyForgotten
  <2>1. \A j \in 1 .. Len(renders) : renders[j].end = "none" <=> W!InLane(j)
    BY <1>1, <1>3 DEF LaneFit
  <2>2. ASSUME NEW c \in 1 .. Len(calls), calls[c].state = "waiting" /\ calls[c].how = "none"
        PROVE  W!InLane(calls[c].render) \/ renders[calls[c].render].end = "lost"
    <3>1. calls[c].render \in 1 .. Len(renders) /\ renders[calls[c].render].end \in {"none", "lost"}
      BY <1>1, <2>2 DEF CallsFit, Fits
    <3> QED
      BY <2>1, <3>1
  <2> QED
    BY <1>1, <2>1, <2>2 DEF W!NobodyForgotten, W!Live
<1>5. W!OwnPicture
  <2>1. ASSUME NEW c \in 1 .. Len(calls), calls[c].state = "picture"
        PROVE  renders[calls[c].render].of = calls[c].of /\ renders[calls[c].render].end = "picture"
    BY <1>1, <2>1 DEF CallsFit, Fits
  <2> QED
    BY <1>1, <2>1 DEF W!OwnPicture
<1>6. W!Counted
  <2> DEFINE S == {c \in DOMAIN calls : \E j \in DOMAIN renders : W!Live(j) /\ W!Waits(c, j)}
  <2>1. S \subseteq Asking
    <3>1. ASSUME NEW c \in 1 .. Len(calls), NEW j \in 1 .. Len(renders), renders[j].end = "none", W!Waits(c, j)
          PROVE  c \in Asking
      BY <3>1 DEF W!Waits, Asking
    <3> QED
      BY <1>1, <3>1 DEF W!Live
  <2>2. W!Cardinality(S) = Cardinality(S)
    BY SameSizeW
  <2>3. W!Counted <=> W!Cardinality(S) <= inFlightRequests
    BY DEF W!Counted
  <2> HIDE DEF S
  <2>4. IsFiniteSet(Asking) /\ Cardinality(Asking) \in Nat
    BY <1>1, WaitingFinite
  <2>5. IsFiniteSet(S) /\ Cardinality(S) <= Cardinality(Asking)
    BY <2>1, <2>4, FS_Subset
  <2>6. Cardinality(S) \in Nat
    BY <2>5, FS_CardinalityType
  <2>7. Cardinality(S) <= inFlightRequests
    BY <1>1, <2>4, <2>5, <2>6 DEF CountFit
  <2> QED
    BY <2>2, <2>3, <2>7
<1>7. W!LaneMoves
  BY <1>1, SameSizeW DEF W!LaneMoves, LaneFit, LaneKept
<1> QED
  BY <1>2, <1>4, <1>5, <1>6, <1>7 DEF W!WorkerSound

-----------------------------------------------------------------------------
(* So is that of Media.                                                    *)
LEMMA SameSizeF == \A S : F!Cardinality(S) = Cardinality(S)
  BY DEF F!Cardinality, Cardinality

(* The files of a room that is also a channel of a platform.               *)
PostRecs == [by : Beings \cup {Human}, files : Seq(Files), shows : Nat]
Frames ==
  [type : {"media", "message"}, by : Beings \cup {Human} \cup Speakers, file : Files \cup {"none"},
   wants : {"human", "model"}, origin : {"house", "platform"}, seen : BOOLEAN, post : Nat]

StoreFit ==
  /\ blobs \subseteq Files /\ record \in Seq(Frames) /\ posts \in Seq(PostRecs)
  /\ rows \subseteq 1 .. Len(posts) /\ restarts \in Nat
SeatsFit ==
  /\ at \in [Beings -> Nat] /\ tail \in [Beings -> Nat] /\ got \in [Beings -> Seq(Files)]
  /\ sending \in [Beings -> SUBSET (Nat \X Nat)] /\ asked \subseteq Beings
  /\ \A s \in Beings : 1 <= at[s] /\ at[s] <= Len(posts) + 1 /\ tail[s] <= Len(record)

(* A file of a frame is in the store; one from the platform is a person's  *)
(* to see.                                                                 *)
FrameFit(f, store, room) ==
  /\ f.type = "media" => f.file \in store /\ (f.wants = "human" => f.file \in room)
  /\ f.post # 0 => f.wants = "human" /\ f.origin = "platform"
RecordFit == \A i \in 1 .. Len(record) : FrameFit(record[i], blobs, refs) /\ record[i].post <= Len(posts)

(* What a seat stored of the post at hand is some of its files, in order.  *)
Stored(g, fs) == \E ks \in F!Through(fs) : g = F!Some(fs, ks)
GotFit ==
  \A s \in asked :
    /\ at[s] <= Len(posts) /\ Stored(got[s], posts[at[s]].files)
    /\ \A k \in 1 .. Len(got[s]) : got[s][k] \in blobs

(* A seat posts frames it was given that are its own to post, each once.   *)
Out(s, f) ==
  /\ f.type = "media" /\ ~(f.seen /\ f.wants = "model")
  /\ f.wants = "model" => f.by = s
  /\ f.wants = "human" => f.origin # "platform"
SendFit ==
  \A s \in Beings : \A i, q \in Nat : <<i, q>> \in sending[s] =>
    /\ i \in 1 .. tail[s] /\ Out(s, record[i])
    /\ q # 0 => q \in 1 .. Len(posts) /\ posts[q].by = s
OutFit ==
  \A p \in 1 .. Len(posts) : posts[p].shows # 0 =>
    /\ posts[p].by \in Beings /\ posts[p].shows \in 1 .. tail[posts[p].by]
    /\ Out(posts[p].by, record[posts[p].shows]) /\ <<posts[p].shows, 0>> \notin sending[posts[p].by]
    /\ \A q \in 1 .. Len(posts) : posts[q].shows = posts[p].shows /\ posts[q].by = posts[p].by => q = p

(* The frames of a post stand together: n of them from a on, its message   *)
(* last.                                                                   *)
Block(rec, post, p, a, n) ==
  /\ 1 <= a /\ 1 <= n /\ n <= MAX_ATTACHMENTS + 1 /\ a + n - 1 <= Len(rec)
  /\ \A i \in 1 .. Len(rec) : rec[i].post = p <=> a <= i /\ i <= a + n - 1
  /\ \A i \in 1 .. Len(rec) : a <= i /\ i <= a + n - 1 =>
       (rec[i].type = "message" <=> i = a + n - 1) /\ rec[i].by = post.by
  /\ \E ks \in F!Through(post.files) :
       DOMAIN ks = 1 .. n - 1 /\ \A k \in 1 .. n - 1 : rec[a + k - 1].file = post.files[ks[k]]
Entered(p) == \E i \in 1 .. Len(record) : record[i].post = p
BlockFit ==
  /\ \A p \in 1 .. Len(posts) : Entered(p) => p \in rows /\ \E a, n \in Nat : Block(record, posts[p], p, a, n)
  /\ \A p \in rows : posts[p].by = Human => Entered(p)

(* A post that no seat has entered was passed by those that began anew.    *)
Past(p, now) == {s \in Beings : now[s] > p}
PassedFit ==
  \A p \in 1 .. Len(posts) : posts[p].by = Human /\ Len(posts[p].files) <= MAX_ATTACHMENTS /\ p \notin rows =>
    Cardinality(Past(p, at)) <= restarts

MediaKept ==
  StoreFit /\ SeatsFit /\ RecordFit /\ GotFit /\ SendFit /\ OutFit /\ BlockFit /\ PassedFit

(* What a choice of a post's files is.                                     *)
LEMMA ThroughIs ==
  ASSUME NEW fs \in Seq(Files), NEW ks \in F!Through(fs)
  PROVE  /\ F!Some(fs, ks) \in Seq(Files) /\ Len(F!Some(fs, ks)) \in 0 .. Len(fs)
         /\ DOMAIN ks = 1 .. Len(F!Some(fs, ks))
         /\ \A k \in 1 .. Len(F!Some(fs, ks)) : F!Some(fs, ks)[k] = fs[ks[k]] /\ ks[k] \in 1 .. Len(fs)
<1>1. Len(fs) \in Nat /\ DOMAIN fs = 1 .. Len(fs) /\ \A i \in 1 .. Len(fs) : fs[i] \in Files
  BY LenProperties, ElementOfSeq
<1>2. PICK n \in 0 .. Len(fs) : ks \in [1 .. n -> DOMAIN fs]
  BY DEF F!Through
<1>3. n \in Nat /\ DOMAIN ks = 1 .. n /\ \A k \in 1 .. n : ks[k] \in 1 .. Len(fs)
  BY <1>1, <1>2
<1> DEFINE g == F!Some(fs, ks)
<1>4. g = [k \in 1 .. n |-> fs[ks[k]]]
  BY <1>3 DEF F!Some
<1>5. \A k \in 1 .. n : g[k] = fs[ks[k]]
  BY <1>4
<1>6. g \in [1 .. n -> Files]
  BY <1>1, <1>3, <1>4
<1>7. g \in Seq(Files) /\ Len(g) = n
  BY <1>3, <1>6, IsASeq, LenProperties
<1> QED
  BY <1>2, <1>3, <1>5, <1>7

(* The record goes on by frames that fit.                                  *)
LEMMA RecordGoesOn ==
  ASSUME MediaKept, NEW fs \in Seq(Frames), record' = record \o fs,
         blobs \subseteq blobs', refs \subseteq refs', UNCHANGED <<posts, tail, sending>>,
         \A k \in 1 .. Len(fs) : FrameFit(fs[k], blobs', refs') /\ fs[k].post <= Len(posts)
  PROVE  /\ record' \in Seq(Frames) /\ Len(record') = Len(record) + Len(fs) /\ Len(record) <= Len(record')
         /\ \A i \in 1 .. Len(record) : record'[i] = record[i]
         /\ \A k \in 1 .. Len(fs) : record'[Len(record) + k] = fs[k]
         /\ RecordFit' /\ SendFit' /\ OutFit'
<1>1. record \in Seq(Frames) /\ Len(record) \in Nat /\ Len(fs) \in Nat
  BY LenProperties DEF MediaKept, StoreFit
<1>2. /\ record' \in Seq(Frames) /\ Len(record') = Len(record) + Len(fs)
      /\ \A i \in 1 .. Len(record') : record'[i] = IF i <= Len(record) THEN record[i] ELSE fs[i - Len(record)]
  <2>1. record \o fs \in Seq(Frames)
    BY <1>1, ConcatProperties
  <2>2. Len(record \o fs) = Len(record) + Len(fs)
    BY <1>1, ConcatProperties
  <2>3. \A i \in 1 .. Len(record) + Len(fs) : (record \o fs)[i] = IF i <= Len(record) THEN record[i] ELSE fs[i - Len(record)]
    BY <1>1, ConcatProperties
  <2> QED
    BY <2>1, <2>2, <2>3
<1>3. \A i \in 1 .. Len(record) : i \in 1 .. Len(record') /\ record'[i] = record[i]
  BY <1>1, <1>2
<1>4. \A k \in 1 .. Len(fs) : Len(record) + k \in 1 .. Len(record') /\ record'[Len(record) + k] = fs[k]
  BY <1>1, <1>2
<1>5. \A i \in 1 .. Len(record') : i \in 1 .. Len(record) \/ \E k \in 1 .. Len(fs) : i = Len(record) + k
  <2> SUFFICES ASSUME NEW i \in 1 .. Len(record'), i \notin 1 .. Len(record)
               PROVE  \E k \in 1 .. Len(fs) : i = Len(record) + k
    OBVIOUS
  <2>1. i - Len(record) \in 1 .. Len(fs) /\ i = Len(record) + (i - Len(record))
    BY <1>1, <1>2
  <2> QED
    BY <2>1
<1>6. RecordFit'
  <2> SUFFICES ASSUME NEW i \in 1 .. Len(record') PROVE FrameFit(record'[i], blobs', refs') /\ record'[i].post <= Len(posts)
    BY DEF RecordFit
  <2>1. CASE i \in 1 .. Len(record)
    <3>1. FrameFit(record[i], blobs, refs) /\ record[i].post <= Len(posts) /\ record'[i] = record[i]
      BY <1>3, <2>1 DEF MediaKept, RecordFit
    <3>2. FrameFit(record[i], blobs', refs')
      BY <3>1 DEF FrameFit
    <3> QED
      BY <3>1, <3>2
  <2>2. ASSUME NEW k \in 1 .. Len(fs), i = Len(record) + k
        PROVE  FrameFit(record'[i], blobs', refs') /\ record'[i].post <= Len(posts)
    BY <1>4, <2>2
  <2> QED
    BY <1>5, <2>1, <2>2
<1>7. \A s \in Beings : tail[s] \in Nat /\ tail[s] <= Len(record)
  BY DEF MediaKept, SeatsFit
<1>8. SendFit'
  <2> SUFFICES ASSUME NEW s \in Beings, NEW i \in Nat, NEW q \in Nat, <<i, q>> \in sending[s]
               PROVE  /\ i \in 1 .. tail[s] /\ Out(s, record'[i])
                      /\ q # 0 => q \in 1 .. Len(posts) /\ posts[q].by = s
    BY DEF SendFit
  <2>1. i \in 1 .. tail[s] /\ Out(s, record[i]) /\ (q # 0 => q \in 1 .. Len(posts) /\ posts[q].by = s)
    BY DEF MediaKept, SendFit
  <2>2. i \in 1 .. Len(record)
    BY <1>1, <1>7, <2>1
  <2> QED
    BY <1>3, <2>1, <2>2
<1>9. OutFit'
  <2> SUFFICES ASSUME NEW p \in 1 .. Len(posts), posts[p].shows # 0
               PROVE  /\ posts[p].by \in Beings /\ posts[p].shows \in 1 .. tail[posts[p].by]
                      /\ Out(posts[p].by, record'[posts[p].shows]) /\ <<posts[p].shows, 0>> \notin sending[posts[p].by]
                      /\ \A q \in 1 .. Len(posts) : posts[q].shows = posts[p].shows /\ posts[q].by = posts[p].by => q = p
    BY DEF OutFit
  <2>1. /\ posts[p].by \in Beings /\ posts[p].shows \in 1 .. tail[posts[p].by]
        /\ Out(posts[p].by, record[posts[p].shows]) /\ <<posts[p].shows, 0>> \notin sending[posts[p].by]
        /\ \A q \in 1 .. Len(posts) : posts[q].shows = posts[p].shows /\ posts[q].by = posts[p].by => q = p
    BY DEF MediaKept, OutFit
  <2>2. posts[p].shows \in 1 .. Len(record)
    BY <1>1, <1>7, <2>1
  <2> QED
    BY <1>3, <2>1, <2>2
<1> QED
  BY <1>1, <1>2, <1>3, <1>4, <1>6, <1>8, <1>9

(* A post's frames stand as the record goes on without it.                 *)
LEMMA BlockStands ==
  ASSUME NEW rec \in Seq(Frames), NEW more \in Seq(Frames), Len(rec) <= Len(more),
         \A i \in 1 .. Len(rec) : more[i] = rec[i],
         NEW post, NEW p, \A i \in 1 .. Len(more) : i > Len(rec) => more[i].post # p,
         NEW a \in Nat, NEW n \in Nat, Block(rec, post, p, a, n)
  PROVE  Block(more, post, p, a, n)
<1>1. Len(rec) \in Nat /\ Len(more) \in Nat /\ MAX_ATTACHMENTS \in Nat
  BY LenProperties, FilesAssumption
<1>2. 1 <= a /\ 1 <= n /\ n <= MAX_ATTACHMENTS + 1 /\ a + n - 1 <= Len(rec)
  BY DEF Block
<1>3. a + n - 1 <= Len(more)
  BY <1>1, <1>2
<1>4. \A i \in 1 .. Len(more) : more[i].post = p <=> a <= i /\ i <= a + n - 1
  <2> SUFFICES ASSUME NEW i \in 1 .. Len(more) PROVE more[i].post = p <=> a <= i /\ i <= a + n - 1
    OBVIOUS
  <2>1. CASE i <= Len(rec)
    <3>1. i \in 1 .. Len(rec)
      BY <1>1, <2>1
    <3>2. rec[i].post = p <=> a <= i /\ i <= a + n - 1
      BY <3>1 DEF Block
    <3> QED
      BY <3>1, <3>2
  <2>2. CASE i > Len(rec)
    <3>1. ~(i <= a + n - 1)
      BY <1>1, <1>2, <2>2
    <3> QED
      BY <2>2, <3>1
  <2> QED
    BY <1>1, <2>1, <2>2
<1>5. ASSUME NEW i \in 1 .. Len(more), a <= i, i <= a + n - 1
      PROVE  (more[i].type = "message" <=> i = a + n - 1) /\ more[i].by = post.by
  <2>1. i \in 1 .. Len(rec)
    BY <1>1, <1>2, <1>5
  <2>2. (rec[i].type = "message" <=> i = a + n - 1) /\ rec[i].by = post.by
    BY <1>5, <2>1 DEF Block
  <2> QED
    BY <2>1, <2>2
<1>6. PICK ks \in F!Through(post.files) :
        DOMAIN ks = 1 .. n - 1 /\ \A k \in 1 .. n - 1 : rec[a + k - 1].file = post.files[ks[k]]
  BY DEF Block
<1>7. \A k \in 1 .. n - 1 : more[a + k - 1].file = post.files[ks[k]]
  <2> SUFFICES ASSUME NEW k \in 1 .. n - 1 PROVE more[a + k - 1].file = post.files[ks[k]]
    OBVIOUS
  <2>1. a + k - 1 \in 1 .. Len(rec)
    BY <1>1, <1>2
  <2> QED
    BY <1>6, <2>1
<1> QED
  BY <1>2, <1>3, <1>4, <1>5, <1>6, <1>7 DEF Block

(* Those that have passed a post are finitely many.                        *)
LEMMA PastFinite ==
  ASSUME NEW p, NEW now
  PROVE  IsFiniteSet(Past(p, now)) /\ Cardinality(Past(p, now)) \in Nat /\ Past(p, now) \subseteq Beings
<1>1. Past(p, now) \subseteq Beings /\ IsFiniteSet(Beings)
  BY FilesAssumption DEF Past
<1>2. IsFiniteSet(Past(p, now))
  BY <1>1, FS_Subset
<1> QED
  BY <1>1, <1>2, FS_CardinalityType

(* More is in the store: uploads, and what no frame tells of.              *)
LEMMA StoreGrows ==
  ASSUME MediaKept, blobs \subseteq blobs', blobs' \subseteq Files,
         UNCHANGED <<posts, at, asked, got, refs, record, rows, tail, sending, restarts>>
  PROVE  MediaKept'
<1>1. StoreFit' /\ SeatsFit' /\ SendFit' /\ OutFit'
  BY DEF MediaKept, StoreFit, SeatsFit, SendFit, OutFit
<1>2. RecordFit'
  <2>1. ASSUME NEW i \in 1 .. Len(record) PROVE FrameFit(record[i], blobs', refs) /\ record[i].post <= Len(posts)
    <3>1. FrameFit(record[i], blobs, refs) /\ record[i].post <= Len(posts)
      BY DEF MediaKept, RecordFit
    <3> QED
      BY <3>1 DEF FrameFit
  <2> QED
    BY <2>1 DEF RecordFit
<1>3. GotFit'
  BY DEF MediaKept, GotFit
<1>4. BlockFit' /\ PassedFit'
  BY DEF MediaKept, BlockFit, Entered, PassedFit
<1> QED
  BY <1>1, <1>2, <1>3, <1>4 DEF MediaKept

(* Frames of the house's own come to the record.                           *)
LEMMA OursGoOn ==
  ASSUME MediaKept, NEW fs \in Seq(Frames), record' = record \o fs,
         blobs \subseteq blobs', blobs' \subseteq Files, refs \subseteq refs',
         UNCHANGED <<posts, at, asked, got, rows, tail, sending, restarts>>,
         \A k \in 1 .. Len(fs) : FrameFit(fs[k], blobs', refs') /\ fs[k].post = 0
  PROVE  MediaKept'
<1>0. /\ record \in Seq(Frames) /\ Len(record) \in Nat /\ Len(fs) \in Nat /\ Len(posts) \in Nat
  BY LenProperties DEF MediaKept, StoreFit
<1>1. /\ record' \in Seq(Frames) /\ Len(record') = Len(record) + Len(fs) /\ Len(record) <= Len(record')
      /\ \A i \in 1 .. Len(record) : record'[i] = record[i]
      /\ \A k \in 1 .. Len(fs) : record'[Len(record) + k] = fs[k]
      /\ RecordFit' /\ SendFit' /\ OutFit'
  <2>1. \A k \in 1 .. Len(fs) : FrameFit(fs[k], blobs', refs') /\ fs[k].post <= Len(posts)
    BY <1>0
  <2> QED
    BY <2>1, RecordGoesOn
<1>2. StoreFit'
  BY <1>1 DEF MediaKept, StoreFit
<1>3. SeatsFit'
  BY <1>0, <1>1 DEF MediaKept, SeatsFit
<1>4. GotFit'
  BY DEF MediaKept, GotFit
<1>5. ASSUME NEW i \in 1 .. Len(record'), i > Len(record) PROVE record'[i].post = 0
  <2>1. i - Len(record) \in 1 .. Len(fs) /\ i = Len(record) + (i - Len(record))
    BY <1>0, <1>1, <1>5
  <2> QED
    BY <1>1, <2>1
<1>6. BlockFit'
  <2>1. ASSUME NEW p \in 1 .. Len(posts) PROVE Entered(p)' <=> Entered(p)
    <3>1. \A i \in 1 .. Len(record) : i \in 1 .. Len(record')
      BY <1>0, <1>1
    <3>2. \A i \in 1 .. Len(record') : i \in 1 .. Len(record) \/ i > Len(record)
      BY <1>0, <1>1
    <3>3. p # 0
      OBVIOUS
    <3> QED
      BY <1>1, <1>5, <3>1, <3>2, <3>3 DEF Entered
  <2>2. ASSUME NEW p \in 1 .. Len(posts), NEW a \in Nat, NEW n \in Nat, Block(record, posts[p], p, a, n)
        PROVE  Block(record', posts[p], p, a, n)
    <3>1. \A i \in 1 .. Len(record') : i > Len(record) => record'[i].post # p
      BY <1>5
    <3> QED
      BY <1>0, <1>1, <2>2, <3>1, BlockStands
  <2>3. \A p \in rows : p \in 1 .. Len(posts)
    BY DEF MediaKept, StoreFit
  <2>4. /\ \A p \in 1 .. Len(posts) : Entered(p) => p \in rows /\ \E a, n \in Nat : Block(record, posts[p], p, a, n)
        /\ \A p \in rows : posts[p].by = Human => Entered(p)
    BY DEF MediaKept, BlockFit
  <2>5. ASSUME NEW p \in 1 .. Len(posts), Entered(p)'
        PROVE  p \in rows /\ \E a, n \in Nat : Block(record', posts[p], p, a, n)
    BY <2>1, <2>2, <2>4, <2>5
  <2>6. ASSUME NEW p \in rows, posts[p].by = Human PROVE Entered(p)'
    BY <2>1, <2>3, <2>4, <2>6
  <2> QED
    BY <2>5, <2>6 DEF BlockFit
<1>7. PassedFit'
  BY DEF MediaKept, PassedFit
<1> QED
  BY <1>1, <1>2, <1>3, <1>4, <1>6, <1>7 DEF MediaKept

(* One post more, by a person or by a being's account.                     *)
LEMMA PostsGoOn ==
  ASSUME MediaKept, NEW x \in PostRecs, posts' = Append(posts, x),
         UNCHANGED <<at, asked, got, blobs, refs, record, rows, tail, restarts>>
  PROVE  /\ Len(posts) \in Nat /\ Len(posts') = Len(posts) + 1 /\ posts'[Len(posts) + 1] = x
         /\ \A p \in 1 .. Len(posts) : posts'[p] = posts[p] /\ p \in 1 .. Len(posts')
         /\ \A p \in 1 .. Len(posts') : p \in 1 .. Len(posts) \/ p = Len(posts) + 1
         /\ StoreFit' /\ RecordFit' /\ GotFit' /\ BlockFit' /\ PassedFit'
<1>1. posts \in Seq(PostRecs) /\ Len(posts) \in Nat /\ record \in Seq(Frames)
  BY LenProperties DEF MediaKept, StoreFit
<1>2. /\ posts' \in Seq(PostRecs) /\ Len(posts') = Len(posts) + 1 /\ posts'[Len(posts) + 1] = x
      /\ \A p \in 1 .. Len(posts) : posts'[p] = posts[p]
  BY <1>1, AppendProperties
<1>3. \A p \in 1 .. Len(posts) : p \in 1 .. Len(posts')
  BY <1>1, <1>2
<1>4. \A p \in 1 .. Len(posts') : p \in 1 .. Len(posts) \/ p = Len(posts) + 1
  BY <1>1, <1>2
<1>5. StoreFit'
  BY <1>2, <1>3 DEF MediaKept, StoreFit
<1>6. \A i \in 1 .. Len(record) : record[i].post \in Nat /\ record[i].post <= Len(posts)
  <2> SUFFICES ASSUME NEW i \in 1 .. Len(record) PROVE record[i].post \in Nat /\ record[i].post <= Len(posts)
    OBVIOUS
  <2>1. record[i] \in Frames
    BY <1>1, ElementOfSeq
  <2>2. record[i].post \in Nat
    BY <2>1 DEF Frames
  <2> QED
    BY <2>2 DEF MediaKept, RecordFit
<1>7. RecordFit'
  <2>1. \A i \in 1 .. Len(record) : FrameFit(record[i], blobs, refs) /\ record[i].post <= Len(posts')
    BY <1>1, <1>2, <1>6 DEF MediaKept, RecordFit
  <2> QED
    BY <2>1 DEF RecordFit
<1>8. GotFit'
  <2> SUFFICES ASSUME NEW s \in asked
               PROVE  /\ at[s] <= Len(posts') /\ Stored(got[s], posts'[at[s]].files)
                      /\ \A k \in 1 .. Len(got[s]) : got[s][k] \in blobs
    BY DEF GotFit
  <2>1. /\ at[s] <= Len(posts) /\ Stored(got[s], posts[at[s]].files)
        /\ \A k \in 1 .. Len(got[s]) : got[s][k] \in blobs
    BY DEF MediaKept, GotFit
  <2>2. at[s] \in 1 .. Len(posts)
    BY <1>1, <2>1 DEF MediaKept, SeatsFit
  <2>3. at[s] <= Len(posts')
    BY <1>1, <1>2, <2>2
  <2> QED
    BY <1>2, <2>1, <2>2, <2>3
<1>9. BlockFit'
  <2>1. \A p \in 1 .. Len(posts) : Entered(p)' <=> Entered(p)
    BY DEF Entered
  <2>2. \A i \in 1 .. Len(record) : record[i].post # Len(posts) + 1
    BY <1>1, <1>6
  <2>3. \A p \in rows : p \in 1 .. Len(posts)
    BY DEF MediaKept, StoreFit
  <2>4. /\ \A p \in 1 .. Len(posts) : Entered(p) => p \in rows /\ \E a, n \in Nat : Block(record, posts[p], p, a, n)
        /\ \A p \in rows : posts[p].by = Human => Entered(p)
    BY DEF MediaKept, BlockFit
  <2>5. ASSUME NEW p \in 1 .. Len(posts'), Entered(p)'
        PROVE  p \in rows /\ \E a, n \in Nat : Block(record, posts'[p], p, a, n)
    <3>1. p # Len(posts) + 1
      BY <2>2, <2>5 DEF Entered
    <3>2. p \in 1 .. Len(posts)
      BY <1>4, <2>5, <3>1
    <3> QED
      BY <1>2, <2>1, <2>4, <2>5, <3>2
  <2>6. ASSUME NEW p \in rows, posts'[p].by = Human PROVE Entered(p)'
    BY <1>2, <2>1, <2>3, <2>4, <2>6
  <2> QED
    BY <2>5, <2>6 DEF BlockFit
<1>10. PassedFit'
  <2> SUFFICES ASSUME NEW p \in 1 .. Len(posts'), posts'[p].by = Human, Len(posts'[p].files) <= MAX_ATTACHMENTS, p \notin rows
               PROVE  Cardinality(Past(p, at)) <= restarts
    BY DEF PassedFit
  <2>1. CASE p \in 1 .. Len(posts)
    BY <1>2, <2>1 DEF MediaKept, PassedFit
  <2>2. CASE p = Len(posts) + 1
    <3>1. \A s \in Beings : at[s] \in Nat /\ at[s] <= Len(posts) + 1
      BY DEF MediaKept, SeatsFit
    <3>2. Past(p, at) = {}
      BY <1>1, <2>2, <3>1 DEF Past
    <3>3. Cardinality({}) = 0 /\ restarts \in Nat
      BY FS_EmptySet DEF MediaKept, StoreFit
    <3> QED
      BY <3>2, <3>3
  <2> QED
    BY <1>4, <2>1, <2>2
<1> QED
  BY <1>1, <1>2, <1>3, <1>4, <1>5, <1>7, <1>8, <1>9, <1>10

(* A person posts.                                                         *)
LEMMA PersonPostsKeeps == ASSUME MediaKept, NEW fs \in Albums, F!PersonPosts(fs) PROVE MediaKept'
<1> DEFINE x == [by |-> Human, files |-> fs, shows |-> 0]
<1>1. posts' = Append(posts, x) /\ UNCHANGED <<at, asked, got, blobs, refs, record, rows, tail, sending, restarts>>
  BY DEF F!PersonPosts, F!Posted, F!seatVars
<1>2. x \in PostRecs /\ x.shows = 0
  BY FilesAssumption DEF PostRecs
<1> HIDE DEF x
<1>3. /\ Len(posts) \in Nat /\ Len(posts') = Len(posts) + 1 /\ posts'[Len(posts) + 1] = x
      /\ \A p \in 1 .. Len(posts) : posts'[p] = posts[p] /\ p \in 1 .. Len(posts')
      /\ \A p \in 1 .. Len(posts') : p \in 1 .. Len(posts) \/ p = Len(posts) + 1
      /\ StoreFit' /\ RecordFit' /\ GotFit' /\ BlockFit' /\ PassedFit'
  BY <1>1, <1>2, PostsGoOn
<1>4. SeatsFit'
  <2>1. \A s \in Beings : at[s] \in Nat /\ 1 <= at[s] /\ at[s] <= Len(posts) + 1 /\ tail[s] <= Len(record)
    BY DEF MediaKept, SeatsFit
  <2>2. \A s \in Beings : 1 <= at[s] /\ at[s] <= Len(posts') + 1 /\ tail[s] <= Len(record)
    BY <1>3, <2>1
  <2> QED
    BY <1>1, <2>2 DEF MediaKept, SeatsFit
<1>5. SendFit'
  BY <1>1, <1>3 DEF MediaKept, SendFit
<1>6. OutFit'
  <2> SUFFICES ASSUME NEW p \in 1 .. Len(posts'), posts'[p].shows # 0
               PROVE  /\ posts'[p].by \in Beings /\ posts'[p].shows \in 1 .. tail[posts'[p].by]
                      /\ Out(posts'[p].by, record[posts'[p].shows]) /\ <<posts'[p].shows, 0>> \notin sending[posts'[p].by]
                      /\ \A q \in 1 .. Len(posts') : posts'[q].shows = posts'[p].shows /\ posts'[q].by = posts'[p].by => q = p
    BY <1>1 DEF OutFit
  <2>1. p \in 1 .. Len(posts) /\ posts'[p] = posts[p]
    BY <1>2, <1>3
  <2>2. /\ posts[p].by \in Beings /\ posts[p].shows \in 1 .. tail[posts[p].by]
        /\ Out(posts[p].by, record[posts[p].shows]) /\ <<posts[p].shows, 0>> \notin sending[posts[p].by]
        /\ \A q \in 1 .. Len(posts) : posts[q].shows = posts[p].shows /\ posts[q].by = posts[p].by => q = p
    BY <2>1 DEF MediaKept, OutFit
  <2>3. ASSUME NEW q \in 1 .. Len(posts'), posts'[q].shows = posts'[p].shows, posts'[q].by = posts'[p].by PROVE q = p
    <3>1. q \in 1 .. Len(posts) /\ posts'[q] = posts[q]
      BY <1>2, <1>3, <2>3
    <3> QED
      BY <2>1, <2>2, <2>3, <3>1
  <2> QED
    BY <2>1, <2>2, <2>3
<1> QED
  BY <1>3, <1>4, <1>5, <1>6 DEF MediaKept

(* A seat goes on to the next post.                                        *)
LEMMA OnwardIs ==
  ASSUME MediaKept, NEW s \in Beings, at[s] <= Len(posts), F!Onward(s)
  PROVE  /\ at' \in [Beings -> Nat] /\ at'[s] = at[s] + 1 /\ asked' = asked \ {s}
         /\ got' \in [Beings -> Seq(Files)] /\ asked' \subseteq Beings
         /\ \A r \in Beings : r # s => at'[r] = at[r] /\ got'[r] = got[r]
         /\ \A r \in Beings : 1 <= at'[r] /\ at'[r] <= Len(posts) + 1
         /\ at[s] \in 1 .. Len(posts) /\ Len(posts) \in Nat
<1>1. /\ at \in [Beings -> Nat] /\ got \in [Beings -> Seq(Files)] /\ asked \subseteq Beings /\ Len(posts) \in Nat
      /\ \A r \in Beings : 1 <= at[r] /\ at[r] <= Len(posts) + 1
  BY LenProperties DEF MediaKept, SeatsFit, StoreFit
<1>2. at' = [at EXCEPT ![s] = at[s] + 1] /\ asked' = asked \ {s} /\ got' = [got EXCEPT ![s] = <<>>]
  BY DEF F!Onward
<1>3. at' \in [Beings -> Nat] /\ at'[s] = at[s] + 1 /\ \A r \in Beings : r # s => at'[r] = at[r]
  BY <1>1, <1>2
<1>4. <<>> \in Seq(Files)
  BY EmptySeq
<1>5. got' \in [Beings -> Seq(Files)] /\ \A r \in Beings : r # s => got'[r] = got[r]
  BY <1>1, <1>2, <1>4
<1>6. ASSUME NEW r \in Beings PROVE 1 <= at'[r] /\ at'[r] <= Len(posts) + 1
  <2>1. at[r] \in Nat /\ 1 <= at[r] /\ at[r] <= Len(posts) + 1
    BY <1>1
  <2>2. CASE r = s
    BY <1>1, <1>3, <2>1, <2>2
  <2>3. CASE r # s
    BY <1>3, <2>1, <2>3
  <2> QED
    BY <2>2, <2>3
<1> QED
  BY <1>1, <1>2, <1>3, <1>5, <1>6

(* Of another post than the one it leaves, no more have passed.            *)
LEMMA PassesOne ==
  ASSUME NEW now \in [Beings -> Nat], NEW s \in Beings, NEW then, then[s] = now[s] + 1,
         \A r \in Beings : r # s => then[r] = now[r], NEW p \in Nat, p # now[s]
  PROVE  Cardinality(Past(p, then)) <= Cardinality(Past(p, now))
<1>1. Past(p, then) \subseteq Past(p, now)
  <2>1. ASSUME NEW r \in Beings, then[r] > p PROVE now[r] > p
    BY <2>1
  <2> QED
    BY <2>1 DEF Past
<1> QED
  BY <1>1, PastFinite, FS_Subset

(* The posts at hand of the others, and what they stored of them.          *)
LEMMA OthersKeepGot ==
  ASSUME MediaKept, NEW s, \A r \in Beings : r # s => at'[r] = at[r] /\ got'[r] = got[r],
         asked' \subseteq asked \ {s}, blobs \subseteq blobs', UNCHANGED posts
  PROVE  GotFit'
<1> SUFFICES ASSUME NEW r \in asked'
             PROVE  /\ at'[r] <= Len(posts) /\ Stored(got'[r], posts[at'[r]].files)
                    /\ \A k \in 1 .. Len(got'[r]) : got'[r][k] \in blobs'
  BY DEF GotFit
<1>1. r \in asked /\ r \in Beings /\ r # s
  BY DEF MediaKept, SeatsFit
<1>2. /\ at[r] <= Len(posts) /\ Stored(got[r], posts[at[r]].files)
      /\ \A k \in 1 .. Len(got[r]) : got[r][k] \in blobs
  BY <1>1 DEF MediaKept, GotFit
<1> QED
  BY <1>1, <1>2

(* A seat's own account's post.                                            *)
LEMMA IgnoresKeeps == ASSUME MediaKept, NEW s \in Beings, F!Ignores(s) PROVE MediaKept'
<1>1. /\ at[s] <= Len(posts) /\ posts[at[s]].by = s /\ F!Onward(s)
      /\ UNCHANGED <<posts, blobs, refs, record, rows, tail, sending, restarts>>
  BY DEF F!Ignores
<1>2. /\ at' \in [Beings -> Nat] /\ at'[s] = at[s] + 1 /\ asked' = asked \ {s}
      /\ got' \in [Beings -> Seq(Files)] /\ asked' \subseteq Beings
      /\ \A r \in Beings : r # s => at'[r] = at[r] /\ got'[r] = got[r]
      /\ \A r \in Beings : 1 <= at'[r] /\ at'[r] <= Len(posts) + 1
      /\ at[s] \in 1 .. Len(posts) /\ Len(posts) \in Nat
  BY <1>1, OnwardIs
<1>3. StoreFit' /\ RecordFit' /\ SendFit' /\ OutFit' /\ BlockFit'
  BY <1>1 DEF MediaKept, StoreFit, RecordFit, SendFit, OutFit, BlockFit, Entered
<1>4. SeatsFit'
  BY <1>1, <1>2 DEF MediaKept, SeatsFit
<1>5. GotFit'
  BY <1>1, <1>2, OthersKeepGot
<1>6. PassedFit'
  <2> SUFFICES ASSUME NEW p \in 1 .. Len(posts), posts[p].by = Human, Len(posts[p].files) <= MAX_ATTACHMENTS, p \notin rows
               PROVE  Cardinality(Past(p, at')) <= restarts
    BY <1>1 DEF PassedFit
  <2>1. p # at[s]
    BY <1>1, FilesAssumption
  <2>2. p \in Nat /\ at \in [Beings -> Nat] /\ restarts \in Nat
    BY <1>2 DEF MediaKept, SeatsFit, StoreFit
  <2>3. Cardinality(Past(p, at')) <= Cardinality(Past(p, at))
    BY <1>2, <2>1, <2>2, PassesOne
  <2>4. Cardinality(Past(p, at)) <= restarts
    BY DEF MediaKept, PassedFit
  <2>5. Cardinality(Past(p, at)) \in Nat /\ Cardinality(Past(p, at')) \in Nat
    BY PastFinite
  <2> QED
    BY <2>2, <2>3, <2>4, <2>5
<1> QED
  BY <1>3, <1>4, <1>5, <1>6 DEF MediaKept

(* A seat stores what gets through of the post at hand.                    *)
LEMMA SharesFiles ==
  ASSUME MediaKept, NEW s \in Beings, F!Reads(s), NEW ks \in F!Through(posts[at[s]].files), F!Shares(s, ks)
  PROVE  MediaKept'
<1> DEFINE fs == posts[at[s]].files
           g == F!Some(fs, ks)
<1>1. /\ at[s] <= Len(posts) /\ asked' = asked \cup {s} /\ got' = [got EXCEPT ![s] = g]
      /\ blobs' = blobs \cup F!ToSet(g) /\ refs' = refs \cup F!ToSet(g)
      /\ UNCHANGED <<posts, at, record, rows, tail, sending, restarts>>
  BY DEF F!Shares, F!Reads, F!StoreSharedMedia, F!PutBlob, F!AddRef
<1>2. /\ posts \in Seq(PostRecs) /\ Len(posts) \in Nat /\ at[s] \in 1 .. Len(posts) /\ asked \subseteq Beings
      /\ got \in [Beings -> Seq(Files)]
  BY <1>1, LenProperties DEF MediaKept, StoreFit, SeatsFit
<1>3. fs \in Seq(Files)
  <2>1. posts[at[s]] \in PostRecs
    BY <1>2, ElementOfSeq
  <2> QED
    BY <2>1 DEF PostRecs
<1>4. Stored(g, fs)
  BY DEF Stored
<1> HIDE DEF fs
<1>5. /\ g \in Seq(Files) /\ Len(g) \in Nat
  BY <1>3, ThroughIs, LenProperties DEF fs
<1> HIDE DEF g
<1>6. DOMAIN g = 1 .. Len(g) /\ \A k \in 1 .. Len(g) : g[k] \in Files
  BY <1>5, LenProperties, ElementOfSeq
<1>7. F!ToSet(g) \subseteq Files /\ \A k \in 1 .. Len(g) : g[k] \in F!ToSet(g)
  BY <1>6 DEF F!ToSet
<1>8. got' \in [Beings -> Seq(Files)] /\ got'[s] = g /\ \A r \in Beings : r # s => got'[r] = got[r]
  BY <1>1, <1>2, <1>5
<1>9. StoreFit'
  BY <1>1, <1>7 DEF MediaKept, StoreFit
<1>10. SeatsFit'
  <2>1. asked' \subseteq Beings
    BY <1>1, <1>2
  <2> QED
    BY <1>1, <1>8, <2>1 DEF MediaKept, SeatsFit
<1>11. RecordFit'
  <2>1. ASSUME NEW i \in 1 .. Len(record) PROVE FrameFit(record[i], blobs', refs') /\ record[i].post <= Len(posts)
    <3>1. FrameFit(record[i], blobs, refs) /\ record[i].post <= Len(posts)
      BY DEF MediaKept, RecordFit
    <3> QED
      BY <1>1, <3>1 DEF FrameFit
  <2> QED
    BY <1>1, <2>1 DEF RecordFit
<1>12. GotFit'
  <2> SUFFICES ASSUME NEW r \in asked'
               PROVE  /\ at[r] <= Len(posts) /\ Stored(got'[r], posts[at[r]].files)
                      /\ \A k \in 1 .. Len(got'[r]) : got'[r][k] \in blobs'
    BY <1>1 DEF GotFit
  <2>1. CASE r = s
    BY <1>1, <1>4, <1>7, <1>8, <2>1 DEF fs
  <2>2. CASE r # s
    <3>1. r \in asked /\ r \in Beings
      BY <1>1, <1>2, <2>2
    <3>2. got'[r] = got[r]
      BY <1>8, <2>2, <3>1
    <3> QED
      BY <1>1, <3>1, <3>2 DEF MediaKept, GotFit
  <2> QED
    BY <2>1, <2>2
<1>13. SendFit' /\ OutFit' /\ BlockFit' /\ PassedFit'
  BY <1>1 DEF MediaKept, SendFit, OutFit, BlockFit, Entered, PassedFit
<1> QED
  BY <1>9, <1>10, <1>11, <1>12, <1>13 DEF MediaKept

(* A seat is given the next frame, and posts it if it goes out.            *)
LEMMA OnFrameKeeps == ASSUME MediaKept, NEW s \in Beings, F!OnFrame(s) PROVE MediaKept'
<1> DEFINE n == tail[s] + 1
           f == record[n]
<1>1. /\ tail[s] < Len(record) /\ tail' = [tail EXCEPT ![s] = n]
      /\ sending' = IF F!GoesOut(s, f) THEN [sending EXCEPT ![s] = sending[s] \cup {<<n, 0>>}] ELSE sending
      /\ UNCHANGED <<posts, at, asked, got, blobs, refs, record, rows, restarts>>
  BY DEF F!OnFrame
<1>2. /\ tail \in [Beings -> Nat] /\ sending \in [Beings -> SUBSET (Nat \X Nat)] /\ Len(record) \in Nat
      /\ \A r \in Beings : tail[r] <= Len(record)
  BY LenProperties DEF MediaKept, SeatsFit, StoreFit
<1>3. n \in Nat /\ n \in 1 .. Len(record) /\ tail[s] \in Nat
  BY <1>1, <1>2
<1>4. F!GoesOut(s, f) => Out(s, f)
  BY DEF F!GoesOut, Out
<1> HIDE DEF f
<1>5. tail' \in [Beings -> Nat] /\ tail'[s] = n /\ \A r \in Beings : r # s => tail'[r] = tail[r]
  BY <1>1, <1>2, <1>3
<1>6. \A r \in Beings : tail'[r] \in Nat /\ tail[r] <= tail'[r] /\ tail'[r] <= Len(record)
  BY <1>2, <1>3, <1>5
<1>7. /\ sending' \in [Beings -> SUBSET (Nat \X Nat)]
      /\ \A r \in Beings : r # s => sending'[r] = sending[r]
      /\ \A i, q \in Nat : <<i, q>> \in sending'[s] => <<i, q>> \in sending[s] \/ (i = n /\ q = 0 /\ Out(s, f))
  <2>1. CASE F!GoesOut(s, f)
    <3>1. sending' = [sending EXCEPT ![s] = sending[s] \cup {<<n, 0>>}]
      BY <1>1, <2>1
    <3>2. sending[s] \cup {<<n, 0>>} \in SUBSET (Nat \X Nat)
      BY <1>2, <1>3
    <3>3. sending'[s] = sending[s] \cup {<<n, 0>>} /\ \A r \in Beings : r # s => sending'[r] = sending[r]
      BY <1>2, <3>1
    <3>4. sending' \in [Beings -> SUBSET (Nat \X Nat)]
      BY <1>2, <3>1, <3>2
    <3> QED
      BY <1>4, <2>1, <3>3, <3>4
  <2>2. CASE ~F!GoesOut(s, f)
    <3>1. sending' = sending
      BY <1>1, <2>2
    <3> QED
      BY <1>2, <3>1
  <2> QED
    BY <2>1, <2>2
<1>8. StoreFit' /\ RecordFit' /\ GotFit' /\ BlockFit' /\ PassedFit'
  BY <1>1 DEF MediaKept, StoreFit, RecordFit, GotFit, BlockFit, Entered, PassedFit
<1>9. SeatsFit'
  <2>1. \A r \in Beings : 1 <= at[r] /\ at[r] <= Len(posts) + 1 /\ tail'[r] <= Len(record)
    BY <1>6 DEF MediaKept, SeatsFit
  <2> QED
    BY <1>1, <1>5, <1>7, <2>1 DEF MediaKept, SeatsFit
<1>10. SendFit'
  <2> SUFFICES ASSUME NEW r \in Beings, NEW i \in Nat, NEW q \in Nat, <<i, q>> \in sending'[r]
               PROVE  /\ i \in 1 .. tail'[r] /\ Out(r, record[i])
                      /\ q # 0 => q \in 1 .. Len(posts) /\ posts[q].by = r
    BY <1>1 DEF SendFit
  <2>1. CASE <<i, q>> \in sending[r]
    <3>1. i \in 1 .. tail[r] /\ Out(r, record[i]) /\ (q # 0 => q \in 1 .. Len(posts) /\ posts[q].by = r)
      BY <2>1 DEF MediaKept, SendFit
    <3>2. tail[r] \in Nat /\ tail'[r] \in Nat /\ tail[r] <= tail'[r]
      BY <1>2, <1>6
    <3>3. i \in 1 .. tail'[r]
      BY <3>1, <3>2
    <3> QED
      BY <3>1, <3>3
  <2>2. CASE r = s /\ i = n /\ q = 0 /\ Out(s, f)
    <3>1. n \in 1 .. tail'[s]
      BY <1>3, <1>5
    <3> QED
      BY <2>2, <3>1 DEF f
  <2> QED
    BY <1>7, <2>1, <2>2
<1>11. OutFit'
  <2> SUFFICES ASSUME NEW p \in 1 .. Len(posts), posts[p].shows # 0
               PROVE  /\ posts[p].by \in Beings /\ posts[p].shows \in 1 .. tail'[posts[p].by]
                      /\ Out(posts[p].by, record[posts[p].shows]) /\ <<posts[p].shows, 0>> \notin sending'[posts[p].by]
                      /\ \A q \in 1 .. Len(posts) : posts[q].shows = posts[p].shows /\ posts[q].by = posts[p].by => q = p
    BY <1>1 DEF OutFit
  <2> DEFINE r == posts[p].by
             i == posts[p].shows
  <2>1. /\ r \in Beings /\ i \in 1 .. tail[r]
        /\ Out(r, record[i]) /\ <<i, 0>> \notin sending[r]
        /\ \A q \in 1 .. Len(posts) : posts[q].shows = i /\ posts[q].by = r => q = p
    BY DEF MediaKept, OutFit
  <2> HIDE DEF r, i
  <2>2. tail[r] \in Nat /\ tail'[r] \in Nat /\ tail[r] <= tail'[r]
    BY <1>2, <1>6, <2>1
  <2>3. i \in 1 .. tail'[r] /\ i \in Nat
    BY <2>1, <2>2
  <2>4. <<i, 0>> \notin sending'[r]
    <3>1. CASE r = s
      <4>1. i # n
        BY <1>3, <2>1, <3>1
      <4> QED
        BY <1>7, <2>1, <2>3, <3>1, <4>1
    <3>2. CASE r # s
      BY <1>7, <2>1, <3>2
    <3> QED
      BY <3>1, <3>2
  <2> QED
    BY <2>1, <2>3, <2>4 DEF r, i
<1> QED
  BY <1>8, <1>9, <1>10, <1>11 DEF MediaKept

(* The platform has a frame that a seat posts.                             *)
LEMMA SentKeeps == ASSUME MediaKept, NEW s \in Beings, NEW i \in 1 .. Len(record), F!Sent(s, i) PROVE MediaKept'
<1> DEFINE x == [by |-> s, files |-> <<record[i].file>>, shows |-> i]
           m == Len(posts) + 1
<1>1. /\ <<i, 0>> \in sending[s] /\ record[i].file \in blobs /\ posts' = Append(posts, x)
      /\ sending' = [sending EXCEPT ![s] = (sending[s] \ {<<i, 0>>}) \cup {<<i, m>>}]
      /\ UNCHANGED <<at, asked, got, blobs, refs, record, rows, tail, restarts>>
  BY DEF F!Sent, F!ResolvesOut, F!HasBlob, F!Posted
<1>2. /\ blobs \subseteq Files /\ Len(record) \in Nat /\ i \in Nat /\ i # 0
      /\ tail \in [Beings -> Nat] /\ sending \in [Beings -> SUBSET (Nat \X Nat)]
  BY LenProperties DEF MediaKept, StoreFit, SeatsFit
<1>3. x \in PostRecs /\ x.by = s /\ x.shows = i
  BY <1>1, <1>2 DEF PostRecs
<1> HIDE DEF x
<1>4. /\ Len(posts) \in Nat /\ Len(posts') = m /\ posts'[m] = x
      /\ \A p \in 1 .. Len(posts) : posts'[p] = posts[p] /\ p \in 1 .. Len(posts')
      /\ \A p \in 1 .. Len(posts') : p \in 1 .. Len(posts) \/ p = m
      /\ StoreFit' /\ RecordFit' /\ GotFit' /\ BlockFit' /\ PassedFit'
  BY <1>1, <1>3, PostsGoOn
<1>5. m \in Nat /\ m # 0 /\ m \in 1 .. Len(posts')
  BY <1>4
<1> HIDE DEF m
<1>6. i \in 1 .. tail[s] /\ Out(s, record[i])
  <2>1. 0 \in Nat
    OBVIOUS
  <2> QED
    BY <1>1, <1>2, <2>1 DEF MediaKept, SendFit
<1>7. /\ sending' \in [Beings -> SUBSET (Nat \X Nat)]
      /\ \A r \in Beings : r # s => sending'[r] = sending[r]
      /\ \A j, q : <<j, q>> \in sending'[s] => (<<j, q>> \in sending[s] /\ <<j, q>> # <<i, 0>>) \/ (j = i /\ q = m)
  <2>1. (sending[s] \ {<<i, 0>>}) \cup {<<i, m>>} \in SUBSET (Nat \X Nat)
    BY <1>2, <1>5
  <2>2. sending'[s] = (sending[s] \ {<<i, 0>>}) \cup {<<i, m>>} /\ \A r \in Beings : r # s => sending'[r] = sending[r]
    BY <1>1, <1>2
  <2>3. sending' \in [Beings -> SUBSET (Nat \X Nat)]
    BY <1>1, <1>2, <2>1
  <2> QED
    BY <2>2, <2>3
<1>8. SeatsFit'
  <2>1. \A r \in Beings : at[r] \in Nat /\ 1 <= at[r] /\ at[r] <= Len(posts) + 1 /\ tail[r] <= Len(record)
    BY DEF MediaKept, SeatsFit
  <2>2. \A r \in Beings : 1 <= at[r] /\ at[r] <= Len(posts') + 1 /\ tail[r] <= Len(record)
    BY <1>4, <2>1 DEF m
  <2> QED
    BY <1>1, <1>7, <2>2 DEF MediaKept, SeatsFit
<1>9. SendFit'
  <2> SUFFICES ASSUME NEW r \in Beings, NEW j \in Nat, NEW q \in Nat, <<j, q>> \in sending'[r]
               PROVE  /\ j \in 1 .. tail[r] /\ Out(r, record[j])
                      /\ q # 0 => q \in 1 .. Len(posts') /\ posts'[q].by = r
    BY <1>1 DEF SendFit
  <2>1. CASE <<j, q>> \in sending[r]
    BY <1>4, <2>1 DEF MediaKept, SendFit
  <2>2. CASE r = s /\ j = i /\ q = m
    BY <1>3, <1>4, <1>5, <1>6, <2>2
  <2> QED
    BY <1>7, <2>1, <2>2
<1>10. ASSUME NEW q \in 1 .. Len(posts), posts[q].shows = i, posts[q].by = s PROVE FALSE
  <2>1. posts[q].shows # 0
    BY <1>2, <1>10
  <2> QED
    BY <1>1, <1>10, <2>1 DEF MediaKept, OutFit
<1>11. OutFit'
  <2> SUFFICES ASSUME NEW p \in 1 .. Len(posts'), posts'[p].shows # 0
               PROVE  /\ posts'[p].by \in Beings /\ posts'[p].shows \in 1 .. tail[posts'[p].by]
                      /\ Out(posts'[p].by, record[posts'[p].shows]) /\ <<posts'[p].shows, 0>> \notin sending'[posts'[p].by]
                      /\ \A q \in 1 .. Len(posts') : posts'[q].shows = posts'[p].shows /\ posts'[q].by = posts'[p].by => q = p
    BY <1>1 DEF OutFit
  <2>1. CASE p = m
    <3>1. posts'[p].by = s /\ posts'[p].shows = i
      BY <1>3, <1>4, <2>1
    <3>2. <<i, 0>> \notin sending'[s]
      BY <1>5, <1>7
    <3>3. ASSUME NEW q \in 1 .. Len(posts'), posts'[q].shows = i, posts'[q].by = s PROVE q = p
      BY <1>4, <1>10, <2>1, <3>3
    <3> QED
      BY <1>6, <3>1, <3>2, <3>3
  <2>2. CASE p \in 1 .. Len(posts)
    <3> DEFINE r == posts[p].by
               j == posts[p].shows
    <3>1. posts'[p].by = r /\ posts'[p].shows = j /\ j # 0
      BY <1>4, <2>2
    <3>2. /\ r \in Beings /\ j \in 1 .. tail[r] /\ Out(r, record[j]) /\ <<j, 0>> \notin sending[r]
          /\ \A q \in 1 .. Len(posts) : posts[q].shows = j /\ posts[q].by = r => q = p
      BY <2>2, <3>1 DEF MediaKept, OutFit
    <3>3. ~(r = s /\ j = i)
      BY <1>10, <2>2
    <3> HIDE DEF r, j
    <3>4. <<j, 0>> \notin sending'[r]
      BY <1>5, <1>7, <3>2
    <3>5. ASSUME NEW q \in 1 .. Len(posts'), posts'[q].shows = j, posts'[q].by = r PROVE q = p
      <4>1. CASE q = m
        BY <1>3, <1>4, <3>3, <3>5, <4>1
      <4>2. CASE q \in 1 .. Len(posts)
        BY <1>4, <3>2, <3>5, <4>2
      <4> QED
        BY <1>4, <4>1, <4>2
    <3> QED
      BY <3>1, <3>2, <3>4, <3>5
  <2> QED
    BY <1>4, <2>1, <2>2
<1> QED
  BY <1>4, <1>8, <1>9, <1>11 DEF MediaKept

(* The platform answers: the post is known as sent.                        *)
LEMMA AnsweredPost ==
  ASSUME MediaKept, NEW s \in Beings, NEW i \in 1 .. Len(record), NEW p \in 1 .. Len(posts), F!Answered(s, i, p)
  PROVE  MediaKept'
<1>1. /\ p # 0 /\ <<i, p>> \in sending[s] /\ rows' = rows \cup {p}
      /\ sending' = [sending EXCEPT ![s] = sending[s] \ {<<i, p>>}]
      /\ UNCHANGED <<posts, at, asked, got, blobs, refs, record, tail, restarts>>
  BY DEF F!Answered
<1>2. sending \in [Beings -> SUBSET (Nat \X Nat)] /\ Len(record) \in Nat /\ Len(posts) \in Nat /\ i \in Nat /\ p \in Nat
  BY LenProperties DEF MediaKept, SeatsFit, StoreFit
<1>3. posts[p].by = s /\ s # Human
  BY <1>1, <1>2, FilesAssumption DEF MediaKept, SendFit
<1>4. sending' \in [Beings -> SUBSET (Nat \X Nat)] /\ \A r \in Beings : sending'[r] \subseteq sending[r]
  <2>1. \A r \in Beings : sending'[r] = IF r = s THEN sending[s] \ {<<i, p>>} ELSE sending[r]
    BY <1>1, <1>2
  <2>2. sending[s] \ {<<i, p>>} \in SUBSET (Nat \X Nat)
    BY <1>2
  <2>3. sending' \in [Beings -> SUBSET (Nat \X Nat)]
    BY <1>1, <1>2, <2>2
  <2> QED
    BY <2>1, <2>3
<1>5. StoreFit'
  BY <1>1 DEF MediaKept, StoreFit
<1>6. SeatsFit'
  BY <1>1, <1>4 DEF MediaKept, SeatsFit
<1>7. RecordFit' /\ GotFit'
  BY <1>1 DEF MediaKept, RecordFit, GotFit
<1>8. SendFit' /\ OutFit'
  <2>1. SendFit'
    BY <1>1, <1>4 DEF MediaKept, SendFit
  <2>2. OutFit'
    BY <1>1, <1>4 DEF MediaKept, OutFit
  <2> QED
    BY <2>1, <2>2
<1>9. BlockFit'
  <2>1. \A q \in 1 .. Len(posts) : Entered(q)' <=> Entered(q)
    BY <1>1 DEF Entered
  <2>2. \A q \in rows : q \in 1 .. Len(posts)
    BY DEF MediaKept, StoreFit
  <2>3. /\ \A q \in 1 .. Len(posts) : Entered(q) => q \in rows /\ \E a, n \in Nat : Block(record, posts[q], q, a, n)
        /\ \A q \in rows : posts[q].by = Human => Entered(q)
    BY DEF MediaKept, BlockFit
  <2>4. ASSUME NEW q \in 1 .. Len(posts), Entered(q)' PROVE q \in rows' /\ \E a, n \in Nat : Block(record, posts[q], q, a, n)
    BY <1>1, <2>1, <2>3, <2>4
  <2>5. ASSUME NEW q \in rows', posts[q].by = Human PROVE Entered(q)'
    BY <1>1, <1>3, <2>1, <2>2, <2>3, <2>5
  <2> QED
    BY <1>1, <2>4, <2>5 DEF BlockFit
<1>10. PassedFit'
  BY <1>1 DEF MediaKept, PassedFit
<1> QED
  BY <1>5, <1>6, <1>7, <1>8, <1>9, <1>10 DEF MediaKept

(* A seat begins anew: one more that has passed what was posted.           *)
LEMMA RestartsKeeps == ASSUME MediaKept, NEW s \in Fragile, F!Restarts(s) PROVE MediaKept'
<1>1. /\ restarts' = restarts + 1 /\ at' = [at EXCEPT ![s] = Len(posts) + 1] /\ asked' = asked \ {s}
      /\ got' = [got EXCEPT ![s] = <<>>] /\ tail' = [tail EXCEPT ![s] = Len(record)]
      /\ sending' = [sending EXCEPT ![s] = {}] /\ UNCHANGED <<posts, blobs, refs, record, rows>>
  BY DEF F!Restarts
<1>2. /\ s \in Beings /\ Len(posts) \in Nat /\ Len(record) \in Nat /\ restarts \in Nat
      /\ at \in [Beings -> Nat] /\ tail \in [Beings -> Nat] /\ got \in [Beings -> Seq(Files)]
      /\ sending \in [Beings -> SUBSET (Nat \X Nat)] /\ asked \subseteq Beings
      /\ \A r \in Beings : 1 <= at[r] /\ at[r] <= Len(posts) + 1 /\ tail[r] <= Len(record)
  BY FilesAssumption, LenProperties DEF MediaKept, SeatsFit, StoreFit
<1>3. at' \in [Beings -> Nat] /\ at'[s] = Len(posts) + 1 /\ \A r \in Beings : r # s => at'[r] = at[r]
  <2>1. Len(posts) + 1 \in Nat
    BY <1>2
  <2> QED
    BY <1>1, <1>2, <2>1
<1>4. tail' \in [Beings -> Nat] /\ tail'[s] = Len(record) /\ \A r \in Beings : r # s => tail'[r] = tail[r]
  BY <1>1, <1>2
<1>5. got' \in [Beings -> Seq(Files)] /\ \A r \in Beings : r # s => got'[r] = got[r]
  <2>1. <<>> \in Seq(Files)
    BY EmptySeq
  <2> QED
    BY <1>1, <1>2, <2>1
<1>6. sending' \in [Beings -> SUBSET (Nat \X Nat)] /\ \A r \in Beings : sending'[r] \subseteq sending[r]
  <2>1. \A r \in Beings : sending'[r] = IF r = s THEN {} ELSE sending[r]
    BY <1>1, <1>2
  <2>2. {} \in SUBSET (Nat \X Nat)
    OBVIOUS
  <2>3. sending' \in [Beings -> SUBSET (Nat \X Nat)]
    BY <1>1, <1>2, <2>2
  <2> QED
    BY <2>1, <2>3
<1>7. ASSUME NEW r \in Beings
      PROVE  tail[r] \in Nat /\ tail'[r] \in Nat /\ tail[r] <= tail'[r] /\ tail'[r] <= Len(record)
  <2>1. tail[r] \in Nat /\ tail[r] <= Len(record)
    BY <1>2
  <2>2. CASE r = s
    BY <1>2, <1>4, <2>1, <2>2
  <2>3. CASE r # s
    BY <1>4, <2>1, <2>3
  <2> QED
    BY <2>2, <2>3
<1>8. StoreFit' /\ RecordFit' /\ BlockFit'
  <2>1. UNCHANGED <<posts, blobs, refs, record, rows>> /\ restarts' \in Nat
    BY <1>1, <1>2
  <2>2. StoreFit'
    BY <2>1 DEF MediaKept, StoreFit
  <2>3. RecordFit'
    BY <2>1 DEF MediaKept, RecordFit
  <2>4. BlockFit'
    BY <2>1 DEF MediaKept, BlockFit, Entered
  <2> QED
    BY <2>2, <2>3, <2>4
<1>9. SeatsFit'
  <2>1. ASSUME NEW r \in Beings
        PROVE  1 <= at'[r] /\ at'[r] <= Len(posts) + 1 /\ tail'[r] <= Len(record)
    <3>1. 1 <= at[r] /\ at[r] <= Len(posts) + 1
      BY <1>2
    <3>2. CASE r = s
      BY <1>2, <1>3, <1>7, <3>2
    <3>3. CASE r # s
      BY <1>3, <1>7, <3>1, <3>3
    <3> QED
      BY <3>2, <3>3
  <2>2. asked' \subseteq Beings
    BY <1>1, <1>2
  <2> QED
    BY <1>1, <1>3, <1>4, <1>5, <1>6, <2>1, <2>2 DEF SeatsFit
<1>10. GotFit'
  <2>1. \A r \in Beings : r # s => at'[r] = at[r] /\ got'[r] = got[r]
    BY <1>3, <1>5
  <2>2. asked' \subseteq asked \ {s} /\ blobs \subseteq blobs' /\ UNCHANGED posts
    BY <1>1
  <2> QED
    BY <2>1, <2>2, OthersKeepGot
<1>11. SendFit'
  <2> SUFFICES ASSUME NEW r \in Beings, NEW j \in Nat, NEW q \in Nat, <<j, q>> \in sending'[r]
               PROVE  /\ j \in 1 .. tail'[r] /\ Out(r, record[j])
                      /\ q # 0 => q \in 1 .. Len(posts) /\ posts[q].by = r
    BY <1>1 DEF SendFit
  <2>1. j \in 1 .. tail[r] /\ Out(r, record[j]) /\ (q # 0 => q \in 1 .. Len(posts) /\ posts[q].by = r)
    BY <1>6 DEF MediaKept, SendFit
  <2>2. tail[r] \in Nat /\ tail'[r] \in Nat /\ tail[r] <= tail'[r]
    BY <1>7
  <2>3. j \in 1 .. tail'[r]
    BY <2>1, <2>2
  <2> QED
    BY <2>1, <2>3
<1>12. OutFit'
  <2> SUFFICES ASSUME NEW p \in 1 .. Len(posts), posts[p].shows # 0
               PROVE  /\ posts[p].by \in Beings /\ posts[p].shows \in 1 .. tail'[posts[p].by]
                      /\ Out(posts[p].by, record[posts[p].shows]) /\ <<posts[p].shows, 0>> \notin sending'[posts[p].by]
                      /\ \A q \in 1 .. Len(posts) : posts[q].shows = posts[p].shows /\ posts[q].by = posts[p].by => q = p
    BY <1>1 DEF OutFit
  <2> DEFINE r == posts[p].by
             j == posts[p].shows
  <2>1. /\ r \in Beings /\ j \in 1 .. tail[r] /\ Out(r, record[j]) /\ <<j, 0>> \notin sending[r]
        /\ \A q \in 1 .. Len(posts) : posts[q].shows = j /\ posts[q].by = r => q = p
    BY DEF MediaKept, OutFit
  <2> HIDE DEF r, j
  <2>2. tail[r] \in Nat /\ tail'[r] \in Nat /\ tail[r] <= tail'[r]
    BY <1>7, <2>1
  <2>3. j \in 1 .. tail'[r] /\ <<j, 0>> \notin sending'[r]
    BY <1>6, <2>1, <2>2
  <2> QED
    BY <2>1, <2>3 DEF r, j
<1>13. PassedFit'
  <2> SUFFICES ASSUME NEW p \in 1 .. Len(posts), posts[p].by = Human, Len(posts[p].files) <= MAX_ATTACHMENTS, p \notin rows
               PROVE  Cardinality(Past(p, at')) <= restarts + 1
    BY <1>1 DEF PassedFit
  <2>1. Cardinality(Past(p, at)) <= restarts
    BY DEF MediaKept, PassedFit
  <2>2. Past(p, at') \subseteq Past(p, at) \cup {s}
    <3>1. \A r \in Beings : at'[r] > p => r = s \/ at[r] > p
      BY <1>3
    <3> QED
      BY <3>1 DEF Past
  <2>3. IsFiniteSet(Past(p, at)) /\ Cardinality(Past(p, at)) \in Nat
    BY PastFinite
  <2>4. IsFiniteSet(Past(p, at) \cup {s}) /\ Cardinality(Past(p, at) \cup {s}) <= Cardinality(Past(p, at)) + 1
    BY <2>3, OneMoreMember
  <2>5. Cardinality(Past(p, at')) <= Cardinality(Past(p, at) \cup {s})
    BY <2>2, <2>4, FS_Subset
  <2>6. Cardinality(Past(p, at')) \in Nat /\ Cardinality(Past(p, at) \cup {s}) \in Nat
    BY <2>4, PastFinite, FS_CardinalityType
  <2> QED
    BY <1>2, <2>1, <2>3, <2>4, <2>5, <2>6
<1> QED
  BY <1>8, <1>9, <1>10, <1>11, <1>12, <1>13 DEF MediaKept

(* The frames a message with files becomes.                                *)
FileFrame(f, by, file, p) ==
  /\ f.type = "media" /\ f.file = file /\ f.by = by /\ f.post = p
  /\ f.wants = "human" /\ f.origin = F!Origin(p)
TextFrame(f, by, p) ==
  f.type = "message" /\ f.by = by /\ f.post = p /\ f.wants = "human" /\ f.origin = F!Origin(p)
AreEntered(fs, by, g, p) ==
  /\ fs \in Seq(Frames) /\ Len(g) \in Nat /\ Len(fs) = Len(g) + 1
  /\ \A k \in 1 .. Len(g) : FileFrame(fs[k], by, g[k], p)
  /\ TextFrame(fs[Len(g) + 1], by, p)

AreThere(g, store, room) == \A k \in 1 .. Len(g) : g[k] \in store /\ g[k] \in room

(* A message becomes them.                                                 *)
LEMMA EnteredIs ==
  ASSUME NEW by \in Beings \cup {Human}, NEW g \in Seq(Files), NEW p \in Nat
  PROVE  AreEntered(F!Entered(by, g, p), by, g, p)
<1> DEFINE a == [k \in 1 .. Len(g) |-> F!Attached(by, g[k], "human", F!Origin(p), FALSE, p)]
           m == F!Message(by, F!Origin(p), p)
           b == <<m>>
<1>1. Len(g) \in Nat /\ \A k \in 1 .. Len(g) : g[k] \in Files
  BY LenProperties, ElementOfSeq
<1>2. F!Origin(p) \in {"house", "platform"}
  BY DEF F!Origin
<1>3. ASSUME NEW k \in 1 .. Len(g) PROVE a[k] \in Frames /\ FileFrame(a[k], by, g[k], p)
  <2> DEFINE x == [type |-> "media", by |-> by, file |-> g[k], wants |-> "human", origin |-> F!Origin(p), seen |-> FALSE,
                   post |-> p]
  <2>1. a[k] = x
    BY DEF F!Attached, F!Frame
  <2>2. g[k] \in Files /\ FALSE \in BOOLEAN
    BY <1>1
  <2>3. x \in Frames
    BY <1>2, <2>2 DEF Frames
  <2>4. FileFrame(x, by, g[k], p)
    BY DEF FileFrame
  <2> HIDE DEF x, a
  <2> QED
    BY <2>1, <2>3, <2>4
<1>4. m \in Frames /\ TextFrame(m, by, p)
  BY <1>2 DEF Frames, F!Message, F!Frame, TextFrame
<1>5. F!Entered(by, g, p) = a \o b
  BY DEF F!Entered
<1>6. a \in [1 .. Len(g) -> Frames]
  BY <1>3
<1> HIDE DEF a, m
<1>7. a \in Seq(Frames) /\ Len(a) = Len(g)
  BY <1>1, <1>6, IsASeq, LenProperties
<1>8. b \in Seq(Frames) /\ Len(b) = 1 /\ b[1] = m
  BY <1>4
<1> HIDE DEF b
<1>9. a \o b \in Seq(Frames)
  BY <1>7, <1>8, ConcatProperties
<1>10. Len(a \o b) = Len(g) + 1
  <2>1. Len(a \o b) = Len(a) + Len(b)
    BY <1>7, <1>8, ConcatProperties
  <2> QED
    BY <1>7, <1>8, <2>1
<1>11. \A k \in 1 .. Len(a) + Len(b) : (a \o b)[k] = IF k <= Len(a) THEN a[k] ELSE b[k - Len(a)]
  BY <1>7, <1>8, ConcatProperties
<1>12. \A k \in 1 .. Len(g) : (a \o b)[k] = a[k]
  BY <1>1, <1>7, <1>8, <1>11
<1>13. (a \o b)[Len(g) + 1] = m
  <2>1. Len(g) + 1 \in 1 .. Len(a) + Len(b) /\ ~(Len(g) + 1 <= Len(a)) /\ Len(g) + 1 - Len(a) = 1
    BY <1>1, <1>7, <1>8
  <2>2. (a \o b)[Len(g) + 1] = b[Len(g) + 1 - Len(a)]
    BY <1>11, <2>1
  <2> QED
    BY <1>8, <2>1, <2>2
<1> QED
  BY <1>1, <1>3, <1>4, <1>5, <1>9, <1>10, <1>12, <1>13 DEF AreEntered

(* They fit once the store and the room have the files.                    *)
LEMMA EnteredFit ==
  ASSUME NEW by, NEW g, NEW p \in Nat, NEW store, NEW room, AreThere(g, store, room),
         NEW fs, AreEntered(fs, by, g, p)
  PROVE  \A k \in 1 .. Len(fs) : FrameFit(fs[k], store, room) /\ fs[k].post = p
<1>1. p # 0 => F!Origin(p) = "platform"
  BY DEF F!Origin
<1>2. \A k \in 1 .. Len(fs) : k \in 1 .. Len(g) \/ k = Len(g) + 1
  BY DEF AreEntered
<1>3. ASSUME NEW k \in 1 .. Len(g) PROVE FrameFit(fs[k], store, room) /\ fs[k].post = p
  <2>1. FileFrame(fs[k], by, g[k], p)
    BY DEF AreEntered
  <2> QED
    BY <1>1, <2>1 DEF FrameFit, FileFrame, AreThere
<1>4. FrameFit(fs[Len(g) + 1], store, room) /\ fs[Len(g) + 1].post = p
  <2>1. TextFrame(fs[Len(g) + 1], by, p)
    BY DEF AreEntered
  <2> QED
    BY <1>1, <2>1 DEF FrameFit, TextFrame
<1> QED
  BY <1>2, <1>3, <1>4

(* roomInput lets it in, or leaves everything as it was.                   *)
LEMMA RoomInputIs ==
  ASSUME NEW by \in Beings \cup {Human}, NEW g \in Seq(Files), NEW p \in Nat, F!RoomInput(by, g, p)
  PROVE  \/ (p \in rows \/ ~F!Resolves(g)) /\ UNCHANGED <<refs, record, rows>>
         \/ /\ p \notin rows /\ Len(g) <= MAX_ATTACHMENTS /\ \A k \in 1 .. Len(g) : g[k] \in blobs /\ g[k] \in refs'
            /\ refs \subseteq refs' /\ record' = record \o F!Entered(by, g, p)
            /\ rows' = IF p = 0 THEN rows ELSE rows \cup {p}
<1>1. DOMAIN g = 1 .. Len(g)
  BY LenProperties
<1>2. CASE p \in rows \/ ~F!Resolves(g)
  BY <1>2 DEF F!RoomInput
<1>3. CASE p \notin rows /\ F!Resolves(g)
  <2>1. /\ refs' = refs \cup F!ToSet(g) /\ record' = record \o F!Entered(by, g, p)
        /\ rows' = IF p = 0 THEN rows ELSE rows \cup {p}
    BY <1>3 DEF F!RoomInput, F!AttachToRun, F!AddRef, F!Shown
  <2>2. Len(g) <= MAX_ATTACHMENTS /\ \A k \in 1 .. Len(g) : g[k] \in blobs
    BY <1>1, <1>3 DEF F!Resolves, F!HasBlob
  <2>3. \A k \in 1 .. Len(g) : g[k] \in F!ToSet(g)
    BY <1>1 DEF F!ToSet
  <2> QED
    BY <1>3, <2>1, <2>2, <2>3
<1> QED
  BY <1>2, <1>3

(* A person's message in the app.                                          *)
LEMMA AppInputKeeps == ASSUME MediaKept, NEW f \in Files, F!AppInput(f) PROVE MediaKept'
<1> DEFINE g == <<f>>
<1>1. F!RoomInput(Human, g, 0) /\ UNCHANGED <<posts, at, asked, got, blobs, tail, sending, restarts>>
  BY DEF F!AppInput, F!seatVars
<1>2. g \in Seq(Files) /\ 0 \in Nat /\ Human \in Beings \cup {Human}
  OBVIOUS
<1> HIDE DEF g
<1>3. CASE UNCHANGED <<refs, record, rows>>
  BY <1>1, <1>3, StoreGrows DEF MediaKept, StoreFit
<1>4. CASE /\ \A k \in 1 .. Len(g) : g[k] \in blobs /\ g[k] \in refs'
           /\ refs \subseteq refs' /\ record' = record \o F!Entered(Human, g, 0) /\ rows' = rows
  <2> DEFINE fs == F!Entered(Human, g, 0)
  <2>0. AreEntered(fs, Human, g, 0)
    BY <1>2, EnteredIs
  <2>5. record' = record \o fs
    BY <1>4
  <2> HIDE DEF fs
  <2>1. fs \in Seq(Frames)
    BY <2>0 DEF AreEntered
  <2>2. \A k \in 1 .. Len(g) : g[k] \in blobs' /\ g[k] \in refs'
    BY <1>1, <1>4
  <2>3. \A k \in 1 .. Len(fs) : FrameFit(fs[k], blobs', refs') /\ fs[k].post = 0
    <3>1. AreThere(g, blobs', refs')
      BY <2>2 DEF AreThere
    <3> QED
      BY <1>2, <2>0, <3>1, EnteredFit
  <2>4. blobs \subseteq blobs' /\ blobs' \subseteq Files
    BY <1>1, <1>4 DEF MediaKept, StoreFit
  <2> QED
    BY <1>1, <1>4, <2>1, <2>3, <2>4, <2>5, OursGoOn
<1> QED
  BY <1>1, <1>2, <1>3, <1>4, RoomInputIs

(* What a being attaches, looks at or hands over.                          *)
LEMMA BeingsFrame ==
  ASSUME NEW b \in Speakers, NEW f \in Files, NEW seen \in BOOLEAN, NEW store, NEW room, f \in store
  PROVE  /\ <<F!Attached(b, f, "model", "house", seen, 0)>> \in Seq(Frames)
         /\ \A k \in 1 .. Len(<<F!Attached(b, f, "model", "house", seen, 0)>>) :
              /\ FrameFit(<<F!Attached(b, f, "model", "house", seen, 0)>>[k], store, room)
              /\ <<F!Attached(b, f, "model", "house", seen, 0)>>[k].post = 0
<1> DEFINE x == F!Attached(b, f, "model", "house", seen, 0)
<1>1. x = [type |-> "media", by |-> b, file |-> f, wants |-> "model", origin |-> "house", seen |-> seen, post |-> 0]
  BY DEF F!Attached, F!Frame
<1>2. x \in Frames /\ x.post = 0 /\ x.file = f /\ x.wants = "model"
  BY <1>1 DEF Frames
<1> HIDE DEF x
<1>3. FrameFit(x, store, room)
  BY <1>2 DEF FrameFit
<1>4. <<x>> \in Seq(Frames) /\ Len(<<x>>) = 1 /\ <<x>>[1] = x
  BY <1>2
<1>5. \A k \in 1 .. Len(<<x>>) : FrameFit(<<x>>[k], store, room) /\ <<x>>[k].post = 0
  <2>1. \A k \in 1 .. 1 : k = 1
    OBVIOUS
  <2> QED
    BY <1>2, <1>3, <1>4, <2>1
<1> QED
  BY <1>4, <1>5 DEF x

(* What a being puts into the room keeps the invariant.                    *)
LEMMA BeingsKeep ==
  ASSUME MediaKept, NEW b \in Speakers, NEW f \in Files,
         F!MediaAttach(b, f) \/ F!MediaView(b, f) \/ F!RecordLocalTool(b, f)
  PROVE  MediaKept'
<1>1. PICK seen \in BOOLEAN :
        /\ record' = record \o <<F!Attached(b, f, "model", "house", seen, 0)>>
        /\ f \in blobs' /\ blobs \subseteq blobs' /\ blobs' \subseteq blobs \cup {f} /\ refs \subseteq refs'
        /\ UNCHANGED <<posts, at, asked, got, rows, tail, sending, restarts>>
  <2>1. CASE F!MediaAttach(b, f)
    BY <2>1 DEF F!MediaAttach, F!ResolveAddr, F!HasBlob, F!Shown, F!seatVars
  <2>2. CASE F!MediaView(b, f)
    BY <2>2 DEF F!MediaView, F!ResolveAddr, F!HasBlob, F!Shown, F!seatVars
  <2>3. CASE F!RecordLocalTool(b, f)
    BY <2>3 DEF F!RecordLocalTool, F!StoreSharedMedia, F!PutBlob, F!AddRef, F!Shown, F!seatVars
  <2> QED
    BY <2>1, <2>2, <2>3
<1> DEFINE fs == <<F!Attached(b, f, "model", "house", seen, 0)>>
<1>2. fs \in Seq(Frames) /\ \A k \in 1 .. Len(fs) : FrameFit(fs[k], blobs', refs') /\ fs[k].post = 0
  BY <1>1, BeingsFrame
<1>3. record' = record \o fs /\ blobs' \subseteq Files
  BY <1>1 DEF MediaKept, StoreFit
<1> HIDE DEF fs
<1> QED
  BY <1>1, <1>2, <1>3, OursGoOn

(* The frames of a post that is let in stand at the record's end.          *)
LEMMA NewBlock ==
  ASSUME NEW rec \in Seq(Frames), NEW fs \in Seq(Frames), NEW more, Len(more) = Len(rec) + Len(fs),
         \A i \in 1 .. Len(rec) : more[i] = rec[i], \A k \in 1 .. Len(fs) : more[Len(rec) + k] = fs[k],
         NEW post \in PostRecs, NEW p \in Nat, \A i \in 1 .. Len(rec) : rec[i].post # p,
         NEW g \in Seq(Files), Stored(g, post.files), Len(g) <= MAX_ATTACHMENTS,
         AreEntered(fs, post.by, g, p)
  PROVE  Block(more, post, p, Len(rec) + 1, Len(g) + 1)
<1> DEFINE r == Len(rec)
           n == Len(g)
<1>1. r \in Nat /\ n \in Nat /\ MAX_ATTACHMENTS \in Nat /\ Len(more) = r + n + 1 /\ Len(fs) = n + 1 /\ n <= MAX_ATTACHMENTS
  BY LenProperties, FilesAssumption DEF AreEntered
<1>2. PICK ks \in F!Through(post.files) : g = F!Some(post.files, ks)
  BY DEF Stored
<1>3. DOMAIN ks = 1 .. n /\ \A k \in 1 .. n : g[k] = post.files[ks[k]]
  <2>1. post.files \in Seq(Files)
    BY DEF PostRecs
  <2> QED
    BY <1>2, <2>1, ThroughIs
<1>4. /\ \A i \in 1 .. r : more[i].post # p
      /\ \A k \in 1 .. n + 1 : more[r + k] = fs[k]
  BY <1>1
<1>10. ASSUME NEW k \in 1 .. n
       PROVE  fs[k].type = "media" /\ fs[k].file = g[k] /\ fs[k].by = post.by /\ fs[k].post = p
  <2>1. FileFrame(fs[k], post.by, g[k], p)
    BY DEF AreEntered
  <2> QED
    BY <2>1 DEF FileFrame
<1>11. fs[n + 1].type = "message" /\ fs[n + 1].by = post.by /\ fs[n + 1].post = p
  <2>1. TextFrame(fs[n + 1], post.by, p)
    BY DEF AreEntered
  <2> QED
    BY <2>1 DEF TextFrame
<1> HIDE DEF r, n
<1>5. ASSUME NEW i \in 1 .. Len(more), r + 1 <= i
      PROVE  more[i].post = p /\ more[i].by = post.by /\ (more[i].type = "message" <=> i = r + n + 1)
  <2>1. i - r \in 1 .. n + 1 /\ r + (i - r) = i
    BY <1>1, <1>5
  <2>2. more[i] = fs[i - r]
    BY <1>4, <2>1
  <2>3. CASE i - r = n + 1
    <3>1. i = r + n + 1
      BY <1>1, <2>1, <2>3
    <3> QED
      BY <1>11, <2>2, <2>3, <3>1
  <2>4. CASE i - r \in 1 .. n
    <3>1. i # r + n + 1
      BY <1>1, <2>4
    <3> QED
      BY <1>10, <2>2, <2>4, <3>1
  <2> QED
    BY <1>1, <2>1, <2>3, <2>4
<1>6. 1 <= r + 1 /\ 1 <= n + 1 /\ n + 1 <= MAX_ATTACHMENTS + 1 /\ r + 1 + (n + 1) - 1 = r + n + 1 /\ (n + 1) - 1 = n
  BY <1>1
<1>7. \A i \in 1 .. Len(more) : more[i].post = p <=> r + 1 <= i /\ i <= r + n + 1
  <2> SUFFICES ASSUME NEW i \in 1 .. Len(more) PROVE more[i].post = p <=> r + 1 <= i /\ i <= r + n + 1
    OBVIOUS
  <2>1. i \in 1 .. r \/ r + 1 <= i
    BY <1>1
  <2>2. i \in 1 .. r => ~(r + 1 <= i)
    BY <1>1
  <2>3. i <= r + n + 1
    BY <1>1
  <2> QED
    BY <1>4, <1>5, <2>1, <2>2, <2>3
<1>8. \A k \in 1 .. n : more[(r + 1) + k - 1].file = post.files[ks[k]]
  <2> SUFFICES ASSUME NEW k \in 1 .. n PROVE more[(r + 1) + k - 1].file = post.files[ks[k]]
    OBVIOUS
  <2>1. (r + 1) + k - 1 = r + k /\ k \in 1 .. n + 1
    BY <1>1
  <2> QED
    BY <1>3, <1>4, <1>10, <2>1
<1>9. Block(more, post, p, r + 1, n + 1)
  <2>1. r + 1 + (n + 1) - 1 <= Len(more)
    BY <1>1
  <2>2. \A i \in 1 .. Len(more) : more[i].post = p <=> r + 1 <= i /\ i <= r + 1 + (n + 1) - 1
    BY <1>6, <1>7
  <2>3. \A i \in 1 .. Len(more) : r + 1 <= i /\ i <= r + 1 + (n + 1) - 1 =>
          (more[i].type = "message" <=> i = r + 1 + (n + 1) - 1) /\ more[i].by = post.by
    BY <1>5, <1>6
  <2>4. DOMAIN ks = 1 .. (n + 1) - 1 /\ \A k \in 1 .. (n + 1) - 1 : more[(r + 1) + k - 1].file = post.files[ks[k]]
    BY <1>3, <1>6, <1>8
  <2> QED
    BY <1>2, <1>6, <2>1, <2>2, <2>3, <2>4 DEF Block
<1> QED
  BY <1>9 DEF r, n

(* The room is given what a seat has of the post at hand.                  *)
LEMMA InputsKeep == ASSUME MediaKept, NEW s \in Beings, F!Inputs(s) PROVE MediaKept'
<1> SUFFICES ASSUME NEW p, p = at[s], NEW g, g = got[s], NEW by, by = posts[p].by PROVE MediaKept'
  OBVIOUS
<1>1. /\ p <= Len(posts) /\ s \in asked /\ F!RoomInput(by, g, p) /\ F!Onward(s)
      /\ UNCHANGED <<posts, blobs, tail, sending, restarts>>
  BY DEF F!Inputs, F!Reads
<1>2. /\ at' \in [Beings -> Nat] /\ at'[s] = p + 1 /\ asked' = asked \ {s}
      /\ got' \in [Beings -> Seq(Files)] /\ asked' \subseteq Beings
      /\ \A r \in Beings : r # s => at'[r] = at[r] /\ got'[r] = got[r]
      /\ \A r \in Beings : 1 <= at'[r] /\ at'[r] <= Len(posts) + 1
      /\ p \in 1 .. Len(posts) /\ Len(posts) \in Nat
  BY <1>1, OnwardIs
<1>3. /\ posts \in Seq(PostRecs) /\ posts[p] \in PostRecs /\ by \in Beings \cup {Human} /\ posts[p].files \in Seq(Files)
      /\ g \in Seq(Files) /\ p \in Nat /\ p # 0 /\ at \in [Beings -> Nat] /\ restarts \in Nat
      /\ record \in Seq(Frames) /\ Len(record) \in Nat
  <2>1. posts \in Seq(PostRecs) /\ posts[p] \in PostRecs
    BY <1>2, ElementOfSeq DEF MediaKept, StoreFit
  <2>2. by \in Beings \cup {Human} /\ posts[p].files \in Seq(Files)
    BY <2>1 DEF PostRecs
  <2> QED
    BY <1>2, <2>1, <2>2, LenProperties DEF MediaKept, StoreFit, SeatsFit
<1>4. Stored(g, posts[p].files) /\ \A k \in 1 .. Len(g) : g[k] \in blobs
  BY <1>1 DEF MediaKept, GotFit
<1>5. Len(g) \in Nat /\ Len(posts[p].files) \in Nat /\ Len(g) <= Len(posts[p].files)
  <2>1. PICK ks \in F!Through(posts[p].files) : g = F!Some(posts[p].files, ks)
    BY <1>4 DEF Stored
  <2>2. Len(g) \in 0 .. Len(posts[p].files)
    BY <1>3, <2>1, ThroughIs
  <2>3. Len(posts[p].files) \in Nat
    BY <1>3, LenProperties
  <2> QED
    BY <2>2, <2>3
<1>6. ASSUME NEW q \in 1 .. Len(posts), q # p, posts[q].by = Human, Len(posts[q].files) <= MAX_ATTACHMENTS, q \notin rows
      PROVE  Cardinality(Past(q, at')) <= restarts
  <2>1. q \in Nat /\ q # at[s]
    BY <1>6
  <2>2. Cardinality(Past(q, at')) <= Cardinality(Past(q, at))
    BY <1>2, <1>3, <2>1, PassesOne
  <2>3. Cardinality(Past(q, at)) <= restarts
    BY <1>6 DEF MediaKept, PassedFit
  <2>4. Cardinality(Past(q, at)) \in Nat /\ Cardinality(Past(q, at')) \in Nat
    BY PastFinite
  <2> QED
    BY <1>3, <2>2, <2>3, <2>4
<1>7. GotFit'
  BY <1>1, <1>2, OthersKeepGot
<1>8. CASE (p \in rows \/ ~F!Resolves(g)) /\ UNCHANGED <<refs, record, rows>>
  <2>1. StoreFit' /\ RecordFit' /\ SendFit' /\ OutFit' /\ BlockFit'
    BY <1>1, <1>8 DEF MediaKept, StoreFit, RecordFit, SendFit, OutFit, BlockFit, Entered
  <2>2. SeatsFit'
    BY <1>1, <1>2, <1>8 DEF MediaKept, SeatsFit
  <2>3. PassedFit'
    <3> SUFFICES ASSUME NEW q \in 1 .. Len(posts), posts[q].by = Human, Len(posts[q].files) <= MAX_ATTACHMENTS, q \notin rows
                 PROVE  Cardinality(Past(q, at')) <= restarts
      BY <1>1, <1>8 DEF PassedFit
    <3>1. q # p
      <4> SUFFICES ASSUME q = p PROVE FALSE
        OBVIOUS
      <4>1. ~F!Resolves(g) /\ Len(posts[p].files) <= MAX_ATTACHMENTS
        BY <1>8
      <4>2. Len(g) <= MAX_ATTACHMENTS
        BY <1>5, <4>1, FilesAssumption
      <4>3. DOMAIN g = 1 .. Len(g)
        BY <1>3, LenProperties
      <4> QED
        BY <1>4, <4>1, <4>2, <4>3 DEF F!Resolves, F!HasBlob
    <3> QED
      BY <1>6, <3>1
  <2> QED
    BY <1>7, <2>1, <2>2, <2>3 DEF MediaKept
<1>9. CASE /\ p \notin rows /\ Len(g) <= MAX_ATTACHMENTS /\ \A k \in 1 .. Len(g) : g[k] \in blobs /\ g[k] \in refs'
           /\ refs \subseteq refs' /\ record' = record \o F!Entered(by, g, p) /\ rows' = rows \cup {p}
  <2> DEFINE fs == F!Entered(by, g, p)
             post == posts[p]
  <2>1. AreEntered(fs, by, g, p)
    BY <1>3, EnteredIs
  <2>4. record' = record \o fs
    BY <1>9
  <2>5. post \in PostRecs /\ by = post.by /\ Stored(g, post.files)
    BY <1>3, <1>4
  <2> HIDE DEF fs, post
  <2>20. fs \in Seq(Frames) /\ Len(fs) = Len(g) + 1
    BY <2>1 DEF AreEntered
  <2>2. \A k \in 1 .. Len(g) : g[k] \in blobs' /\ g[k] \in refs'
    BY <1>1, <1>9
  <2>3. \A k \in 1 .. Len(fs) : FrameFit(fs[k], blobs', refs') /\ fs[k].post = p
    <3>1. p \in Nat
      BY <1>3
    <3>2. AreThere(g, blobs', refs')
      BY <2>2 DEF AreThere
    <3> QED
      BY <2>1, <3>1, <3>2, EnteredFit
  <2>6. \A k \in 1 .. Len(fs) : FrameFit(fs[k], blobs', refs') /\ fs[k].post <= Len(posts)
    BY <1>2, <2>3
  <2>7. blobs \subseteq blobs' /\ UNCHANGED <<posts, tail, sending>>
    BY <1>1
  <2>8. /\ record' \in Seq(Frames) /\ Len(record') = Len(record) + Len(fs) /\ Len(record) <= Len(record')
        /\ \A i \in 1 .. Len(record) : record'[i] = record[i]
        /\ \A k \in 1 .. Len(fs) : record'[Len(record) + k] = fs[k]
        /\ RecordFit' /\ SendFit' /\ OutFit'
    BY <1>9, <2>4, <2>6, <2>7, <2>20, RecordGoesOn
  <2>9. StoreFit'
    BY <1>1, <1>2, <1>9, <2>8 DEF MediaKept, StoreFit
  <2>10. SeatsFit'
    <3>1. \A r \in Beings : tail[r] \in Nat /\ tail[r] <= Len(record)
      BY DEF MediaKept, SeatsFit
    <3>2. \A r \in Beings : tail[r] <= Len(record')
      BY <1>3, <1>5, <2>8, <2>20, <3>1
    <3> QED
      BY <1>1, <1>2, <3>2 DEF MediaKept, SeatsFit
  <2>11. ASSUME NEW i \in 1 .. Len(record'), i > Len(record) PROVE record'[i].post = p
    <3>1. i - Len(record) \in 1 .. Len(fs) /\ i = Len(record) + (i - Len(record))
      BY <1>3, <1>5, <2>8, <2>20, <2>11
    <3> QED
      BY <2>3, <2>8, <3>1
  <2>12. /\ \A i \in 1 .. Len(record) : i \in 1 .. Len(record')
         /\ \A i \in 1 .. Len(record') : i \in 1 .. Len(record) \/ i > Len(record)
    BY <1>3, <1>5, <2>8, <2>20
  <2>13. /\ \A q \in 1 .. Len(posts) : Entered(q) => q \in rows /\ \E a, n \in Nat : Block(record, posts[q], q, a, n)
         /\ \A q \in rows : posts[q].by = Human => Entered(q)
         /\ \A q \in rows : q \in 1 .. Len(posts)
    BY DEF MediaKept, BlockFit, StoreFit
  <2>14. ASSUME NEW q \in 1 .. Len(posts), q # p PROVE Entered(q)' <=> Entered(q)
    BY <2>8, <2>11, <2>12, <2>14 DEF Entered
  <2>15. \A i \in 1 .. Len(record) : record[i].post # p
    BY <1>2, <1>9, <2>13 DEF Entered
  <2>16. Block(record', post, p, Len(record) + 1, Len(g) + 1)
    <3>1. AreEntered(fs, post.by, g, p)
      BY <2>1, <2>5
    <3>2. Len(g) <= MAX_ATTACHMENTS
      BY <1>9
    <3> QED
      BY <1>3, <2>5, <2>8, <2>15, <2>20, <3>1, <3>2, NewBlock
  <2>17. Entered(p)'
    <3>1. Len(record) + (Len(g) + 1) \in 1 .. Len(record') /\ Len(g) + 1 \in 1 .. Len(fs)
      BY <1>3, <1>5, <2>8, <2>20
    <3>2. record'[Len(record) + (Len(g) + 1)].post = p
      BY <2>3, <2>8, <3>1
    <3> QED
      BY <3>1, <3>2 DEF Entered
  <2>18. BlockFit'
    <3>1. ASSUME NEW q \in 1 .. Len(posts), Entered(q)'
          PROVE  q \in rows' /\ \E a, n \in Nat : Block(record', posts[q], q, a, n)
      <4>1. CASE q = p
        <5>1. Len(record) + 1 \in Nat /\ Len(g) + 1 \in Nat
          BY <1>3, <1>5
        <5>2. Block(record', posts[p], p, Len(record) + 1, Len(g) + 1)
          BY <2>16 DEF post
        <5>3. \E a, n \in Nat : Block(record', posts[p], p, a, n)
          BY <5>1, <5>2
        <5> QED
          BY <1>9, <4>1, <5>3
      <4>2. CASE q # p
        <5>1. q \in rows
          BY <2>13, <2>14, <3>1, <4>2
        <5>2. PICK a \in Nat, n \in Nat : Block(record, posts[q], q, a, n)
          BY <2>13, <2>14, <3>1, <4>2
        <5>3. \A i \in 1 .. Len(record') : i > Len(record) => record'[i].post # q
          BY <2>11, <4>2
        <5>4. Block(record', posts[q], q, a, n)
          BY <1>3, <2>8, <5>2, <5>3, BlockStands
        <5> QED
          BY <1>9, <5>1, <5>4
      <4> QED
        BY <4>1, <4>2
    <3>2. ASSUME NEW q \in rows', posts[q].by = Human PROVE Entered(q)'
      <4>1. CASE q = p
        BY <2>17, <4>1
      <4>2. CASE q # p
        <5>1. q \in rows
          BY <1>9, <3>2, <4>2
        <5> QED
          BY <2>13, <2>14, <3>2, <4>2, <5>1
      <4> QED
        BY <4>1, <4>2
    <3> QED
      BY <1>1, <3>1, <3>2 DEF BlockFit
  <2>19. PassedFit'
    <3> SUFFICES ASSUME NEW q \in 1 .. Len(posts), posts[q].by = Human, Len(posts[q].files) <= MAX_ATTACHMENTS, q \notin rows'
                 PROVE  Cardinality(Past(q, at')) <= restarts
      BY <1>1 DEF PassedFit
    <3> QED
      BY <1>6, <1>9
  <2> QED
    BY <1>7, <2>8, <2>9, <2>10, <2>18, <2>19 DEF MediaKept
<1> QED
  BY <1>1, <1>3, <1>8, <1>9, RoomInputIs

(* Media: at rest.                                                         *)
LEMMA MediaRest ==
  ASSUME MediaKept, UNCHANGED <<posts, at, asked, got, blobs, refs, record, rows, tail, sending, restarts>>
  PROVE  MediaKept'
  BY DEF MediaKept, StoreFit, SeatsFit, RecordFit, GotFit, SendFit, OutFit, BlockFit, Entered, PassedFit

(* Media: every step.                                                      *)
LEMMA MediaNext == ASSUME MediaKept, F!Next PROVE MediaKept'
<1>1. DOMAIN record = 1 .. Len(record) /\ DOMAIN posts = 1 .. Len(posts)
  BY LenProperties DEF MediaKept, StoreFit
<1>2. ASSUME NEW f \in Files, F!Uploads(f) PROVE MediaKept'
  <2>1. blobs' = blobs \cup {f} /\ UNCHANGED <<posts, at, asked, got, refs, record, rows, tail, sending, restarts>>
    BY <1>2 DEF F!Uploads, F!PutBlob, F!seatVars
  <2> QED
    BY <2>1, StoreGrows DEF MediaKept, StoreFit
<1>3. CASE \E fs \in Albums : F!PersonPosts(fs)
  BY <1>3, PersonPostsKeeps
<1>4. CASE \E s \in Beings : F!Ignores(s) \/ F!Inputs(s) \/ F!OnFrame(s)
  BY <1>4, IgnoresKeeps, InputsKeep, OnFrameKeeps
<1>5. CASE \E s \in Fragile : F!Restarts(s)
  BY <1>5, RestartsKeeps
<1>6. CASE \E s \in Beings : F!Reads(s) /\ \E ks \in F!Through(posts[at[s]].files) : F!Shares(s, ks)
  BY <1>6, SharesFiles
<1>7. CASE \E f \in Files : F!Uploads(f) \/ F!AppInput(f)
  BY <1>2, <1>7, AppInputKeeps
<1>8. CASE \E b \in Speakers, f \in Files : F!MediaAttach(b, f) \/ F!MediaView(b, f) \/ F!RecordLocalTool(b, f)
  BY <1>8, BeingsKeep
<1>9. CASE \E s \in Beings, i \in 1 .. Len(record) : F!Sent(s, i)
  BY <1>9, SentKeeps
<1>10. CASE \E s \in Beings, i \in 1 .. Len(record), p \in 1 .. Len(posts) : F!Answered(s, i, p)
  BY <1>10, AnsweredPost
<1> QED
  BY <1>1, <1>3, <1>4, <1>5, <1>6, <1>7, <1>8, <1>9, <1>10 DEF F!Next

(* Media: the start.                                                       *)
LEMMA MediaStart == ASSUME F!Init PROVE MediaKept
<1>1. /\ posts = <<>> /\ at = [s \in Beings |-> 1] /\ asked = {} /\ got = [s \in Beings |-> <<>>]
      /\ blobs = {} /\ refs = {} /\ record = <<>> /\ rows = {}
      /\ tail = [s \in Beings |-> 0] /\ sending = [s \in Beings |-> {}] /\ restarts = 0
  BY DEF F!Init
<1>2. Len(<<>>) = 0 /\ ~\E i \in 1 .. 0 : TRUE
  BY EmptySeq
<1>3. <<>> \in Seq(Frames) /\ <<>> \in Seq(PostRecs) /\ <<>> \in Seq(Files)
  BY EmptySeq
<1>4. StoreFit
  BY <1>1, <1>3 DEF StoreFit
<1>5. SeatsFit
  <2>1. at \in [Beings -> Nat] /\ tail \in [Beings -> Nat] /\ \A s \in Beings : at[s] = 1 /\ tail[s] = 0
    BY <1>1
  <2>2. got \in [Beings -> Seq(Files)] /\ sending \in [Beings -> SUBSET (Nat \X Nat)]
    BY <1>1, <1>3
  <2> QED
    BY <1>1, <1>2, <2>1, <2>2 DEF SeatsFit
<1>6. RecordFit /\ GotFit /\ OutFit /\ BlockFit /\ PassedFit
  BY <1>1, <1>2 DEF RecordFit, GotFit, OutFit, BlockFit, PassedFit
<1>7. SendFit
  BY <1>1 DEF SendFit
<1> QED
  BY <1>4, <1>5, <1>6, <1>7 DEF MediaKept

(* The least of an interval.                                               *)
LEMMA LeastOf ==
  ASSUME NEW a \in Nat, NEW b \in Nat, a <= b, NEW S, S = a .. b
  PROVE  (CHOOSE i \in S : \A j \in S : i <= j) = a
<1>1. a \in S /\ \A j \in S : a <= j
  OBVIOUS
<1>2. \A i \in S : (\A j \in S : i <= j) => i = a
  BY <1>1
<1> QED
  BY <1>1, <1>2

(* What the invariant says of the files.                                   *)
LEMMA MediaIsSound == ASSUME MediaKept PROVE F!MediaSound
<1>1. /\ DOMAIN record = 1 .. Len(record) /\ DOMAIN posts = 1 .. Len(posts) /\ Len(record) \in Nat
      /\ record \in Seq(Frames) /\ posts \in Seq(PostRecs) /\ restarts \in Nat /\ MAX_ATTACHMENTS \in Nat
      /\ \A p \in 1 .. Len(posts) : posts[p] \in PostRecs
  BY LenProperties, ElementOfSeq, FilesAssumption DEF MediaKept, StoreFit
<1>2. F!ShownIsKept
  <2>1. ASSUME NEW i \in 1 .. Len(record), record[i].type = "media"
        PROVE  record[i].file \in blobs /\ (record[i].wants = "human" => record[i].file \in refs)
    BY <2>1 DEF MediaKept, RecordFit, FrameFit
  <2> QED
    BY <1>1, <2>1 DEF F!ShownIsKept
<1>3. F!PostedByItsOwn
  <2>1. ASSUME NEW p \in 1 .. Len(posts), posts[p].shows # 0
        PROVE  /\ record[posts[p].shows].type = "media" /\ record[posts[p].shows].post = 0
               /\ record[posts[p].shows].wants = "model" =>
                    /\ record[posts[p].shows].by = posts[p].by /\ ~record[posts[p].shows].seen
                    /\ \A q \in 1 .. Len(posts) : posts[q].shows = posts[p].shows => q = p
    <3> DEFINE i == posts[p].shows
               f == record[i]
    <3>1. /\ posts[p].by \in Beings /\ i \in 1 .. tail[posts[p].by] /\ Out(posts[p].by, f)
          /\ \A q \in 1 .. Len(posts) : posts[q].shows = i /\ posts[q].by = posts[p].by => q = p
      BY <2>1 DEF MediaKept, OutFit
    <3>2. \A q \in 1 .. Len(posts) : posts[q].shows = i => Out(posts[q].by, f)
      BY <2>1 DEF MediaKept, OutFit
    <3>3. i \in 1 .. Len(record)
      <4>1. tail[posts[p].by] \in Nat /\ tail[posts[p].by] <= Len(record)
        BY <3>1 DEF MediaKept, SeatsFit
      <4> QED
        BY <1>1, <3>1, <4>1
    <3>4. f.post # 0 => f.wants = "human" /\ f.origin = "platform"
      BY <3>3 DEF MediaKept, RecordFit, FrameFit
    <3> HIDE DEF f, i
    <3>5. f.type = "media" /\ f.post = 0
      BY <3>1, <3>4 DEF Out
    <3>6. ASSUME f.wants = "model"
          PROVE  f.by = posts[p].by /\ ~f.seen /\ \A q \in 1 .. Len(posts) : posts[q].shows = i => q = p
      <4>1. f.by = posts[p].by /\ ~f.seen
        BY <3>1, <3>6 DEF Out
      <4>2. ASSUME NEW q \in 1 .. Len(posts), posts[q].shows = i PROVE q = p
        <5>1. f.by = posts[q].by
          BY <3>2, <3>6, <4>2 DEF Out
        <5> QED
          BY <3>1, <4>1, <4>2, <5>1
      <4> QED
        BY <4>1, <4>2
    <3> QED
      BY <3>5, <3>6 DEF f, i
  <2> QED
    BY <1>1, <2>1 DEF F!PostedByItsOwn
<1>4. \A p : F!From(p) # {} <=> Entered(p)
  BY <1>1 DEF F!From, Entered
<1>5. F!TogetherOnce
  <2> SUFFICES ASSUME NEW p \in 1 .. Len(posts), F!From(p) # {}
               PROVE  LET n == F!Cardinality(F!From(p))
                          first == CHOOSE i \in F!From(p) : \A j \in F!From(p) : i <= j
                      IN /\ F!From(p) = first .. first + n - 1 /\ n <= MAX_ATTACHMENTS + 1
                         /\ \A i \in F!From(p) : (record[i].type = "message" <=> i = first + n - 1) /\ record[i].by = posts[p].by
                         /\ \E ks \in F!Through(posts[p].files) :
                              [i \in 1 .. n - 1 |-> record[first + i - 1].file] = F!Some(posts[p].files, ks)
    BY <1>1 DEF F!TogetherOnce
  <2>1. PICK a \in Nat, n \in Nat : Block(record, posts[p], p, a, n)
    BY <1>4 DEF MediaKept, BlockFit
  <2>2. /\ 1 <= a /\ 1 <= n /\ n <= MAX_ATTACHMENTS + 1 /\ a + n - 1 <= Len(record)
        /\ \A i \in 1 .. Len(record) : record[i].post = p <=> a <= i /\ i <= a + n - 1
        /\ \A i \in 1 .. Len(record) : a <= i /\ i <= a + n - 1 =>
             (record[i].type = "message" <=> i = a + n - 1) /\ record[i].by = posts[p].by
    BY <2>1 DEF Block
  <2>3. PICK ks \in F!Through(posts[p].files) :
          DOMAIN ks = 1 .. n - 1 /\ \A k \in 1 .. n - 1 : record[a + k - 1].file = posts[p].files[ks[k]]
    BY <2>1 DEF Block
  <2> DEFINE S == F!From(p)
  <2>4. S = a .. a + n - 1
    <3>1. \A i : i \in S <=> i \in 1 .. Len(record) /\ record[i].post = p
      BY <1>1 DEF F!From
    <3>2. \A i : i \in S <=> i \in a .. a + n - 1
      <4> HIDE DEF S
      <4> QED
        BY <1>1, <2>2, <3>1
    <3> QED
      BY <3>2
  <2> HIDE DEF S
  <2>5. a + n - 1 \in Nat /\ a <= a + n - 1 /\ (a + n - 1) - a + 1 = n
    BY <2>2
  <2>6. (CHOOSE i \in S : \A j \in S : i <= j) = a
    BY <2>4, <2>5, LeastOf
  <2>7. Cardinality(S) = n
    <3>1. Cardinality(a .. a + n - 1) = IF a > a + n - 1 THEN 0 ELSE (a + n - 1) - a + 1
      BY <2>5, FS_Interval
    <3>2. ~(a > a + n - 1)
      BY <2>2
    <3> QED
      BY <2>4, <2>5, <3>1, <3>2
  <2>8. F!Cardinality(S) = n
    BY <2>7, SameSizeF
  <2>9. \A i \in S : (record[i].type = "message" <=> i = a + n - 1) /\ record[i].by = posts[p].by
    <3> SUFFICES ASSUME NEW i \in S PROVE (record[i].type = "message" <=> i = a + n - 1) /\ record[i].by = posts[p].by
      OBVIOUS
    <3>1. i \in 1 .. Len(record) /\ a <= i /\ i <= a + n - 1
      BY <1>1, <2>2, <2>4
    <3> QED
      BY <2>2, <3>1
  <2>10. [i \in 1 .. n - 1 |-> record[a + i - 1].file] = F!Some(posts[p].files, ks)
    <3>1. F!Some(posts[p].files, ks) = [i \in 1 .. n - 1 |-> posts[p].files[ks[i]]]
      BY <2>3 DEF F!Some
    <3> QED
      BY <2>3, <3>1
  <2>11. \E ls \in F!Through(posts[p].files) : [i \in 1 .. n - 1 |-> record[a + i - 1].file] = F!Some(posts[p].files, ls)
    BY <2>10
  <2> QED
    BY <2>2, <2>4, <2>6, <2>8, <2>9, <2>11 DEF S
<1>6. F!PassedIsRecorded
  <2> SUFFICES ASSUME NEW p \in 1 .. Len(posts), posts[p].by = Human, \A s \in Beings : at[s] > p,
                      ~(F!From(p) # {}), ~(Len(posts[p].files) > MAX_ATTACHMENTS)
               PROVE  restarts >= F!Cardinality(Beings)
    BY <1>1 DEF F!PassedIsRecorded
  <2>1. Len(posts[p].files) \in Nat
    BY <1>1, LenProperties DEF PostRecs
  <2>2. Len(posts[p].files) <= MAX_ATTACHMENTS
    BY <1>1, <2>1
  <2>3. p \notin rows
    BY <1>4 DEF MediaKept, BlockFit
  <2>4. Cardinality(Past(p, at)) <= restarts
    BY <2>2, <2>3 DEF MediaKept, PassedFit
  <2>5. Past(p, at) = Beings
    BY DEF Past
  <2>6. Cardinality(Beings) \in Nat /\ F!Cardinality(Beings) = Cardinality(Beings)
    BY FilesAssumption, FS_CardinalityType, SameSizeF
  <2> QED
    BY <1>1, <2>4, <2>5, <2>6
<1> QED
  BY <1>2, <1>3, <1>5, <1>6 DEF F!MediaSound

(* Pictures are rendered once at a time and given to whoever waits for     *)
(* them; a file that is shown is in the store, is posted by its own, and   *)
(* comes into the record with its message, once.                           *)
THEOREM FilesAreSound == MCSpec => []FilesSound
<1>1. MCInit => WorkerKept /\ MediaKept
  BY WorkerStart, MediaStart DEF MCInit
<1>2. (WorkerKept /\ MediaKept) /\ [MCNext]_<<part, vars, dreamVars, mediaVars>> => (WorkerKept /\ MediaKept)'
  <2> SUFFICES ASSUME WorkerKept, MediaKept, [MCNext]_<<part, vars, dreamVars, mediaVars>>
               PROVE  (WorkerKept /\ MediaKept)'
    OBVIOUS
  <2>1. W!Next \/ UNCHANGED dreamVars
    BY DEF MCNext
  <2>2. F!Next \/ UNCHANGED mediaVars
    BY DEF MCNext
  <2>3. WorkerKept'
    BY <2>1, WorkerNext, WorkerRest DEF dreamVars
  <2>4. MediaKept'
    BY <2>2, MediaNext, MediaRest DEF mediaVars
  <2> QED
    BY <2>3, <2>4
<1>3. (WorkerKept /\ MediaKept) => FilesSound
  BY WorkerIsSound, MediaIsSound DEF FilesSound
<1> QED
  BY <1>1, <1>2, <1>3, PTL DEF MCSpec
=============================================================================
