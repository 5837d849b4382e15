----------------------------- MODULE PartsProofs -----------------------------
(***************************************************************************)
(* What the parts of MCParts guarantee of themselves, for every value of   *)
(* their constants: who is woken by a post (Dispatch), the one child of a  *)
(* platform (ChildHost), and what a being's life keeps (Lives).  Each is   *)
(* proved of the sum, whose other parts leave it alone.                    *)
(***************************************************************************)
EXTENDS MCParts, SequenceTheorems, FiniteSetTheorems, TLAPS

-----------------------------------------------------------------------------
(* Sets of numbers.                                                        *)

(* A non-empty set of numbers has a least one.                             *)
LEMMA Least ==
  ASSUME NEW U, U \subseteq Nat, U # {}
  PROVE  \E n \in U : \A m \in U : n <= m
<1>1. IsWellFoundedOn(OpToRel(<, Nat), Nat)
  BY NatLessThanWellFounded
<1>2. PICK n \in U : \A m \in U : ~(<<m, n>> \in OpToRel(<, Nat))
  BY <1>1, WFMin
<1>3. \A m \in U : m < n => <<m, n>> \in OpToRel(<, Nat)
  BY DEF OpToRel
<1>4. \A m \in U : ~(m < n)
  BY <1>2, <1>3, Zenon
<1> QED
  BY <1>4

UpTo(S, n) == {j \in S : j <= n}

(* Every set of positions has a k-th one, k up to its size: what a filter  *)
(* of a list keeps, it can number.                                         *)
LEMMA EveryRank ==
  ASSUME NEW N \in Nat, NEW S, S \subseteq 1 .. N, NEW k \in 1 .. Cardinality(S)
  PROVE  \E i \in S : Cardinality(UpTo(S, i)) = k
<1>1. /\ IsFiniteSet(S) /\ Cardinality(S) \in Nat
      /\ \A n \in Nat : IsFiniteSet(UpTo(S, n)) /\ Cardinality(UpTo(S, n)) \in Nat
  <2>1. IsFiniteSet(1 .. N)
    BY FS_Interval
  <2>2. IsFiniteSet(S)
    BY <2>1, FS_Subset
  <2>3. \A n \in Nat : UpTo(S, n) \subseteq S
    BY DEF UpTo
  <2> QED
    BY <2>2, <2>3, FS_Subset, FS_CardinalityType
<1>0. \A j \in S : j \in Nat /\ 1 <= j /\ j <= N
  OBVIOUS
<1> DEFINE U == {n \in Nat : k <= Cardinality(UpTo(S, n))}
<1>2. UpTo(S, N) = S
  BY <1>0 DEF UpTo
<1>3. N \in U
  BY <1>1, <1>2
<1>4. PICK n \in U : \A m \in U : n <= m
  BY <1>3, Least
<1>5. n \in Nat /\ k <= Cardinality(UpTo(S, n))
  OBVIOUS
<1>6. n # 0
  <2>1. \A j \in S : ~(j <= 0)
    BY <1>0
  <2>2. UpTo(S, 0) = {}
    BY <2>1, Zenon DEF UpTo
  <2> QED
    BY <1>5, <2>2, FS_EmptySet
<1>7. n - 1 \in Nat /\ Cardinality(UpTo(S, n - 1)) \in Nat /\ Cardinality(UpTo(S, n - 1)) < k
  <2>1. n - 1 \in Nat /\ ~(n <= n - 1)
    BY <1>5, <1>6
  <2>2. n - 1 \notin U
    BY <1>4, <2>1
  <2> QED
    BY <1>1, <2>1, <2>2
<1>8. UpTo(S, n) = IF n \in S THEN UpTo(S, n - 1) \cup {n} ELSE UpTo(S, n - 1)
  <2>1. \A j \in S : j <= n <=> j <= n - 1 \/ j = n
    BY <1>0, <1>5, <1>6
  <2> QED
    BY <2>1 DEF UpTo
<1>9. n \in S
  BY <1>5, <1>7, <1>8
<1>10. Cardinality(UpTo(S, n)) = Cardinality(UpTo(S, n - 1)) + 1
  <2>1. n \notin UpTo(S, n - 1)
    BY <1>5 DEF UpTo
  <2>2. IsFiniteSet(UpTo(S, n - 1))
    BY <1>1, <1>7
  <2>3. UpTo(S, n) = UpTo(S, n - 1) \cup {n}
    BY <1>8, <1>9
  <2> QED
    BY <2>1, <2>2, <2>3, FS_AddElement
<1> QED
  BY <1>5, <1>7, <1>9, <1>10

-----------------------------------------------------------------------------
(* Dispatch: posts.                                                        *)

Seats == Beings \cup {0}
Posts ==
  [kind : {"person", "bot", "outsider", "being"}, by : Seats, to : Seats,
   pace : {"unjudged", "slow", "late", "fast", "stop"}, recorded : BOOLEAN,
   woke : SUBSET Beings, plan : [Beings -> SUBSET Seats], done : SUBSET Beings]

(* Whom a post may wake: never whose it is, and of a lottery one.          *)
AtMostOne(S) == S = {} \/ \E b \in Beings : S = {b}
MayWake(p, S) ==
  /\ S \subseteq Beings /\ p.by \notin S
  /\ roomKind = "lottery" /\ p.to = 0 => AtMostOne(S)

(* What a seat decided, and whom the post woke: nobody until it is         *)
(* recorded, by the one seat that records it.                              *)
PostSound(p) ==
  /\ p \in Posts
  /\ \A s \in Beings : p.plan[s] = D!Unrouted \/ MayWake(p, p.plan[s])
  /\ MayWake(p, p.woke) /\ (~p.recorded => p.woke = {})
PostsSound == posts \in Seq(Posts) /\ \A i \in 1 .. Len(posts) : PostSound(posts[i])
DispatchKept == PostsSound /\ spoken \subseteq Beings

(* A part of whom a post may wake is again one it may wake.                *)
LEMMA FewerMayWake ==
  ASSUME NEW p, NEW S, MayWake(p, S), NEW T, T \subseteq S
  PROVE  MayWake(p, T)
  BY DEF MayWake, AtMostOne

(* A new post has woken nobody and nobody has decided of it.               *)
LEMMA NewPostSound ==
  ASSUME NEW kind \in {"person", "bot", "outsider", "being"}, NEW by \in Seats, NEW to \in Seats,
         NEW pace \in {"unjudged", "slow", "late", "fast", "stop"}
  PROVE  PostSound(D!Post(kind, by, to, pace))
<1> DEFINE p == D!Post(kind, by, to, pace)
<1>1. /\ p.woke = {} /\ p.by = by /\ \A s \in Beings : p.plan[s] = D!Unrouted
  BY DEF D!Post
<1>2. [s \in Beings |-> D!Unrouted] \in [Beings -> SUBSET Seats]
  BY DEF D!Unrouted, D!Nobody, Seats
<1>3. (IF by \in Beings THEN {by} ELSE IF pace = "stop" THEN Beings \ {to} ELSE {}) \in SUBSET Beings
  OBVIOUS
<1>4. p \in Posts
  BY <1>2, <1>3 DEF D!Post, Posts
<1> HIDE DEF p
<1>5. MayWake(p, p.woke)
  BY <1>1 DEF MayWake, AtMostOne
<1>6. PostSound(p)
  BY <1>1, <1>4, <1>5 DEF PostSound
<1> QED
  BY <1>6 DEF p

(* A post arrives behind those that some seat has still to apply.          *)
LEMMA ArrivingSound ==
  ASSUME PostsSound, NEW p, PostSound(p), D!Arrives(p), roomKind' = roomKind
  PROVE  PostsSound'
<1> DEFINE still == [k \in 1 .. D!Cardinality(D!Pending) |-> posts[D!Nth(D!Pending, k)]]
<1>1. posts' = Append(still, p)
  BY DEF D!Arrives
<1>2. Len(posts) \in Nat /\ D!Pending \subseteq 1 .. Len(posts)
  BY LenProperties DEF PostsSound, D!Pending
<1>3. \A S : D!Cardinality(S) = Cardinality(S)
  BY DEF D!Cardinality, Cardinality
<1>4. \A k \in 1 .. Cardinality(D!Pending) : D!Nth(D!Pending, k) \in D!Pending
  <2> SUFFICES ASSUME NEW k \in 1 .. Cardinality(D!Pending) PROVE D!Nth(D!Pending, k) \in D!Pending
    OBVIOUS
  <2>1. PICK i \in D!Pending : Cardinality(UpTo(D!Pending, i)) = k
    BY <1>2, EveryRank
  <2>2. D!Cardinality({j \in D!Pending : j <= i}) = k
    BY <1>3, <2>1 DEF UpTo
  <2> HIDE DEF D!Pending
  <2> QED
    BY <2>2 DEF D!Nth
<1>5. Cardinality(D!Pending) \in Nat
  <2>1. IsFiniteSet(1 .. Len(posts))
    BY <1>2, FS_Interval
  <2> QED
    BY <1>2, <2>1, FS_Subset, FS_CardinalityType
<1>6. \A k \in 1 .. Cardinality(D!Pending) : still[k] \in Posts /\ PostSound(still[k])
  BY <1>2, <1>3, <1>4 DEF PostsSound, PostSound
<1>7. still \in Seq(Posts) /\ Len(still) = Cardinality(D!Pending)
  <2>1. still \in [1 .. Cardinality(D!Pending) -> Posts]
    BY <1>3, <1>6
  <2>2. DOMAIN still = 1 .. Cardinality(D!Pending)
    BY <1>3
  <2> HIDE DEF still
  <2> QED
    BY <1>5, <2>1, <2>2
<1> HIDE DEF still
<1>8. /\ posts' \in Seq(Posts) /\ Len(posts') = Len(still) + 1
      /\ \A k \in 1 .. Len(still) : posts'[k] = still[k]
      /\ posts'[Len(still) + 1] = p
  <2>1. p \in Posts
    BY DEF PostSound
  <2> QED
    BY <1>1, <1>7, <2>1, AppendProperties
<1>9. \A k \in 1 .. Len(posts') : PostSound(posts'[k])
  BY <1>5, <1>6, <1>7, <1>8
<1> QED
  BY <1>8, <1>9 DEF PostsSound, PostSound, MayWake
(* Posts that arrive from outside.                                         *)
LEMMA OutsideSound ==
  ASSUME PostsSound, spoken \subseteq Beings, D!PersonPosts \/ D!BotPosts
  PROVE  PostsSound'
<1>1. PICK p : PostSound(p) /\ D!Arrives(p)
  <2>1. 0 \in Seats /\ Beings \subseteq Seats /\ D!Nobody = 0 /\ D!Nobody \in Seats
    BY DEF Seats, D!Nobody
  <2>2. ASSUME D!PersonPosts PROVE \E p : PostSound(p) /\ D!Arrives(p)
    <3>1. CASE \E to \in Beings \cup {D!Nobody} : D!Arrives(D!Post("person", D!Nobody, to, "unjudged"))
      BY <2>1, <3>1, NewPostSound
    <3>2. CASE \E to \in Beings, kind \in {"person", "bot"} : D!Arrives(D!Post(kind, D!Nobody, to, "stop"))
      BY <2>1, <3>2, NewPostSound
    <3>3. CASE \E to \in Beings \cup {D!Nobody}, pace \in {"unjudged", "slow", "late"} :
                 D!Arrives(D!Post("outsider", D!Nobody, to, pace))
      BY <2>1, <3>3, NewPostSound
    <3> QED
      BY <2>2, <3>1, <3>2, <3>3 DEF D!PersonPosts
  <2>3. ASSUME D!BotPosts PROVE \E p : PostSound(p) /\ D!Arrives(p)
    <3>1. CASE \E to \in Beings \cup {D!Nobody} : D!Arrives(D!Post("bot", D!Nobody, to, "unjudged"))
      BY <2>1, <3>1, NewPostSound
    <3>2. CASE \E to \in spoken : D!Arrives(D!Post("outsider", D!Nobody, to, "fast"))
      BY <2>1, <2>3, <3>2, NewPostSound
    <3> QED
      BY <2>3, <3>1, <3>2 DEF D!BotPosts
  <2> QED
    BY <2>2, <2>3
<1>2. roomKind' = roomKind
  BY DEF D!PersonPosts, D!BotPosts
<1> QED
  BY <1>1, <1>2, ArrivingSound
-----------------------------------------------------------------------------
(* Dispatch: what a seat decides and applies.                              *)

(* A being is addressed by one name, and never by its own post.            *)
LEMMA AddressedMayWake ==
  ASSUME NEW p, PostSound(p)
  PROVE  /\ MayWake(p, D!Addressed(p))
         /\ p.to = 0 => D!Addressed(p) = {}
  BY PartsAssumption DEF MayWake, AtMostOne, D!Addressed, PostSound, Posts, Seats

(* Who may win a roll: never the one who posted, and in a lottery one, and *)
(* nobody where a being is addressed.                                      *)
LEMMA RolledMayWake ==
  ASSUME NEW p, PostSound(p), NEW r \in D!Rolls(p)
  PROVE  MayWake(p, r)
<1>1. CASE roomKind = "lottery"
  <2>1. r = {} \/ \E b \in D!Eligible(p) : r = {b}
    BY <1>1 DEF D!Rolls
  <2> QED
    BY <2>1 DEF MayWake, AtMostOne, D!Eligible
<1>2. CASE roomKind # "lottery"
  BY <1>2 DEF D!Rolls, MayWake
<1> QED
  BY <1>1, <1>2

(* Whatever is decided of a post is somebody it may wake.                  *)
LEMMA DecidedMayWake ==
  ASSUME NEW p, PostSound(p), NEW who \in D!Decisions(p)
  PROVE  MayWake(p, who)
<1>1. CASE who = {}
  BY <1>1 DEF MayWake, AtMostOne
<1>2. ASSUME NEW r \in D!Rolls(p), who = D!Addressed(p) \cup r
      PROVE  MayWake(p, who)
  <2>1. MayWake(p, D!Addressed(p)) /\ (p.to = 0 => D!Addressed(p) = {})
    BY AddressedMayWake
  <2>2. MayWake(p, r)
    BY RolledMayWake
  <2>3. who \subseteq Beings /\ p.by \notin who
    BY <1>2, <2>1, <2>2 DEF MayWake
  <2>4. ASSUME p.to = 0 PROVE who = r
    BY <1>2, <2>1, <2>4
  <2> QED
    BY <2>2, <2>3, <2>4 DEF MayWake
<1> QED
  BY <1>1, <1>2 DEF D!Decisions

(* A step that puts another sound post in the place of one.                *)
LEMMA PostReplaced ==
  ASSUME PostsSound, roomKind' = roomKind, NEW i \in 1 .. Len(posts), NEW q, PostSound(q),
         posts' = [posts EXCEPT ![i] = q]
  PROVE  PostsSound'
<1>1. q \in Posts
  BY DEF PostSound
<1>2. /\ posts' \in Seq(Posts) /\ Len(posts') = Len(posts)
      /\ \A j \in 1 .. Len(posts) : posts'[j] = IF j = i THEN q ELSE posts[j]
  BY <1>1, ExceptSeq DEF PostsSound
<1>3. \A j \in 1 .. Len(posts') : PostSound(posts'[j])
  BY <1>2 DEF PostsSound
<1> QED
  BY <1>2, <1>3 DEF PostsSound, PostSound, MayWake

(* A being's decision is taken for one delivery it has received.           *)
LEMMA RoutingSound ==
  ASSUME PostsSound, NEW s \in Beings, D!Routes(s)
  PROVE  PostsSound'
<1>1. PICK i \in 1 .. Len(posts) :
        /\ D!Arrived(s, posts[i])
        /\ \E who \in IF D!Duplicate(posts[i]) THEN {{}} ELSE D!Decisions(posts[i]) :
             posts' = [posts EXCEPT ![i].plan[s] = who]
  BY DEF D!Routes
<1>2. PICK who \in IF D!Duplicate(posts[i]) THEN {{}} ELSE D!Decisions(posts[i]) :
        posts' = [posts EXCEPT ![i].plan[s] = who]
  BY <1>1
<1>3. PostSound(posts[i])
  BY DEF PostsSound
<1>4. MayWake(posts[i], who)
  <2>1. MayWake(posts[i], {})
    BY DEF MayWake, AtMostOne
  <2> QED
    BY <1>2, <1>3, <2>1, DecidedMayWake
<1> DEFINE p == posts[i]
           q == [p EXCEPT !.plan[s] = who]
<1>5. /\ q \in Posts /\ q.by = p.by /\ q.to = p.to /\ q.woke = p.woke /\ q.recorded = p.recorded
      /\ \A x \in Beings : q.plan[x] = IF x = s THEN who ELSE p.plan[x]
  <2>1. who \in SUBSET Seats
    BY <1>4 DEF MayWake, Seats
  <2>2. p \in Posts
    BY <1>3 DEF PostSound
  <2> HIDE DEF p
  <2> QED
    BY <2>1, <2>2 DEF Posts
<1>6. PostSound(q)
  <2> HIDE DEF q
  <2> QED
    BY <1>3, <1>4, <1>5 DEF PostSound, MayWake
<1>7. roomKind' = roomKind /\ posts' = [posts EXCEPT ![i] = q]
  BY <1>2 DEF D!Routes
<1> HIDE DEF q
<1> QED
  BY <1>6, <1>7, PostReplaced

(* The seat that comes to a post first records it, and whom it wakes is a  *)
(* part of whom it had decided for; every other seat finds it recorded.    *)
LEMMA ApplyingSound ==
  ASSUME PostsSound, NEW s \in Beings, D!Applies(s)
  PROVE  PostsSound'
<1> DEFINE Handled(i, w) ==
      [posts EXCEPT ![i].done = @ \cup {s}, ![i].recorded = TRUE, ![i].woke = @ \cup w]
<1>0. PICK i \in 1 .. Len(posts) :
        /\ posts[i].plan[s] # D!Unrouted
        /\ \/ posts' = Handled(i, {})
           \/ \E away \in SUBSET posts[i].plan[s] :
                ~posts[i].recorded /\ posts' = Handled(i, posts[i].plan[s] \ (busy \cup away))
  BY DEF D!Applies, D!InputApplied, D!Duplicate
<1>1. PICK woken \in (SUBSET Beings) \cup (SUBSET posts[i].plan[s]) :
        /\ posts' = Handled(i, woken)
        /\ woken = {} \/ (~posts[i].recorded /\ woken \subseteq posts[i].plan[s])
  <2> HIDE DEF Handled
  <2>1. CASE posts' = Handled(i, {})
    BY <2>1
  <2>2. ASSUME NEW away \in SUBSET posts[i].plan[s], ~posts[i].recorded,
               posts' = Handled(i, posts[i].plan[s] \ (busy \cup away))
        PROVE  \E w \in (SUBSET Beings) \cup (SUBSET posts[i].plan[s]) :
                 posts' = Handled(i, w) /\ (w = {} \/ (~posts[i].recorded /\ w \subseteq posts[i].plan[s]))
    <3> DEFINE fresh == posts[i].plan[s] \ (busy \cup away)
    <3>1. /\ fresh \subseteq posts[i].plan[s] /\ ~posts[i].recorded /\ posts' = Handled(i, fresh)
          /\ fresh \in (SUBSET Beings) \cup (SUBSET posts[i].plan[s])
      BY <2>2
    <3> HIDE DEF fresh
    <3> QED
      BY <3>1, Zenon
  <2> QED
    BY <1>0, <2>1, <2>2
<1> DEFINE p == posts[i]
           q == [p EXCEPT !.done = @ \cup {s}, !.recorded = TRUE, !.woke = @ \cup woken]
<1>2. PostSound(p)
  BY DEF PostsSound
<1>3. MayWake(p, p.woke \cup woken)
  <2>1. CASE woken = {}
    BY <1>2, <2>1 DEF PostSound, MayWake
  <2>2. CASE ~p.recorded /\ woken \subseteq p.plan[s]
    <3>1. p.woke = {} /\ MayWake(p, p.plan[s])
      BY <1>0, <1>2, <2>2 DEF PostSound
    <3>2. p.woke \cup woken \subseteq p.plan[s]
      BY <2>2, <3>1
    <3> QED
      BY <3>1, <3>2, FewerMayWake
  <2> QED
    BY <1>1, <2>1, <2>2
<1>4. /\ q \in Posts /\ q.by = p.by /\ q.to = p.to /\ q.woke = p.woke \cup woken /\ q.recorded
      /\ q.plan = p.plan
  <2>1. p.woke \cup woken \in SUBSET Beings
    BY <1>3 DEF MayWake
  <2>2. p \in Posts
    BY <1>2 DEF PostSound
  <2> HIDE DEF p
  <2> QED
    BY <2>1, <2>2 DEF Posts
<1>5. PostSound(q)
  <2> HIDE DEF q
  <2> QED
    BY <1>2, <1>3, <1>4 DEF PostSound, MayWake
<1>6. roomKind' = roomKind /\ posts' = [posts EXCEPT ![i] = q]
  BY <1>1 DEF D!Applies
<1> HIDE DEF q
<1> QED
  BY <1>5, <1>6, PostReplaced

(* No being is woken by its own words, whichever seat's chain comes to     *)
(* them first and whoever rolled, and of a lottery one being wins          *)
(* (dispatch.mjs, the seats' chains): for any beings, budget, caps and     *)
(* number of posts.                                                        *)
THEOREM OneIsWoken ==
  Spec => []DispatchSound
<1>1. Init => DispatchKept
  <2> SUFFICES ASSUME Init PROVE DispatchKept
    OBVIOUS
  <2>1. posts = <<>> /\ spoken = {}
    BY DEF Init, D!Init
  <2> QED
    BY <2>1, EmptySeq DEF DispatchKept, PostsSound
<1>2. DispatchKept /\ [Next]_vars => DispatchKept'
  <2> SUFFICES ASSUME PostsSound, spoken \subseteq Beings, [Next]_vars
               PROVE  PostsSound' /\ spoken' \subseteq Beings
    BY DEF DispatchKept
  <2>1. D!Next \/ UNCHANGED dispatchVars
    BY DEF Next, vars
  <2>2. ASSUME posts' = posts, roomKind' = roomKind PROVE PostsSound'
    BY <2>2 DEF PostsSound, PostSound, MayWake
  <2>3. CASE D!PersonPosts \/ D!BotPosts
    BY <2>3, OutsideSound DEF D!PersonPosts, D!BotPosts, D!RoomState
  <2>4. ASSUME NEW s \in Beings, D!Routes(s) PROVE PostsSound' /\ spoken' \subseteq Beings
    BY <2>4, RoutingSound DEF D!Routes, D!RoomState
  <2>5. ASSUME NEW s \in Beings, D!Applies(s) PROVE PostsSound' /\ spoken' \subseteq Beings
    <3>1. spoken' = spoken
      BY <2>5 DEF D!Applies, D!RoomState, D!InputApplied, D!CommandApplied
    <3> QED
      BY <2>5, <3>1, ApplyingSound
  <2>6. ASSUME NEW b \in Beings, D!Speaks(b) PROVE PostsSound' /\ spoken' \subseteq Beings
    <3>1. spoken' = spoken \cup {b} /\ roomKind' = roomKind
      BY <2>6 DEF D!Speaks
    <3>2. ASSUME NEW to \in Beings \cup {D!Nobody}, D!Arrives(D!Post("being", b, to, "unjudged"))
          PROVE  PostsSound'
      <4>1. b \in Seats /\ to \in Seats
        BY DEF Seats, D!Nobody
      <4>2. PostSound(D!Post("being", b, to, "unjudged"))
        BY <4>1, NewPostSound
      <4> QED
        BY <3>1, <3>2, <4>2, ArrivingSound
    <3> QED
      BY <2>2, <2>6, <3>1, <3>2 DEF D!Speaks
  <2>7. ASSUME NEW b \in Beings, D!EndsSilent(b) \/ D!HushLifts(b) PROVE PostsSound' /\ spoken' \subseteq Beings
    BY <2>2, <2>7 DEF D!EndsSilent, D!HushLifts
  <2> QED
    BY <2>1, <2>2, <2>3, <2>4, <2>5, <2>6, <2>7 DEF D!Next, dispatchVars
<1>3. DispatchKept => DispatchSound
  <2> SUFFICES ASSUME PostsSound, NEW i \in 1 .. Len(posts)
               PROVE  /\ posts[i].by \notin posts[i].woke
                      /\ roomKind = "lottery" /\ posts[i].to = D!Nobody => D!Cardinality(posts[i].woke) <= 1
    BY DEF DispatchKept, DispatchSound, D!Sound
  <2>1. MayWake(posts[i], posts[i].woke)
    BY DEF PostsSound, PostSound
  <2>2. \A S : D!Cardinality(S) = Cardinality(S)
    BY DEF D!Cardinality, Cardinality
  <2>3. ASSUME NEW S, AtMostOne(S) PROVE Cardinality(S) <= 1
    <3>1. CASE S = {}
      BY <3>1, FS_EmptySet
    <3>2. ASSUME NEW b, S = {b} PROVE Cardinality(S) = 1
      BY <3>2, FS_Singleton
    <3> QED
      BY <2>3, <3>1, <3>2 DEF AtMostOne
  <2> QED
    BY <2>1, <2>2, <2>3 DEF MayWake, D!Nobody
<1> QED
  BY <1>1, <1>2, <1>3, PTL DEF Spec
-----------------------------------------------------------------------------
(* ChildHost: children, and the loops that open the standing rooms.        *)

Kids ==
  [up : BOOLEAN, shut : BOOLEAN, stage : {"init", "grant", "tools", "done"}, opened : SUBSET Streams]
Loops(n) == [kid : 1 .. n, at : Streams, phase : {"asked", "history"}, todo : SUBSET Streams]
RoomStates(n) ==
  [channels : SUBSET Streams, open : SUBSET Streams, opening : SUBSET Streams, loops : Seq(Loops(n))]
States == {"starting", "crashed", "mcp-only", "ready", "stopped"}

ChildTyped ==
  /\ kids \in Seq(Kids) /\ rooms \in RoomStates(Len(kids))
  /\ st \in [state : States, stopped : BOOLEAN, timer : BOOLEAN, wire : 0 .. Len(kids)]
ChildKept == ChildTyped /\ C!OneChild /\ C!OpenIsTheChilds

(* The first of the streams that are due.                                  *)
LEMMA FirstIsDue ==
  ASSUME NEW due, due \subseteq Streams, due # {}
  PROVE  C!Min(due) \in due
<1>1. \E n \in due : \A m \in due : n <= m
  BY Least, PartsAssumption
<1> QED
  BY <1>1 DEF C!Min

(* The loop of a child that is still there, going on to a next stream.     *)
Going(r, kid, todo) == C!Onward(r, TRUE, kid, todo)

(* A loop that goes on is of the child in use, at a stream of those left;  *)
(* it opens nothing yet.                                                   *)
LEMMA GoingTyped ==
  ASSUME NEW n \in Nat, NEW r \in RoomStates(n), NEW kid \in 1 .. n, NEW todo, todo \subseteq Streams
  PROVE  Going(r, kid, todo) \in RoomStates(n) /\ Going(r, kid, todo).open = r.open
<1> DEFINE due == {s \in todo : s \in r.channels /\ s \notin r.open \cup r.opening}
           m == C!Min(due)
           l == [kid |-> kid, at |-> m, phase |-> "asked", todo |-> {s \in todo : s > m}]
           o == r.opening \cup {m}
           ls == Append(r.loops, l)
<1>1. CASE due = {}
  BY <1>1 DEF Going, C!Onward
<1>2. CASE due # {}
  <2>1. m \in Streams
    BY <1>2, FirstIsDue
  <2>2. l \in Loops(n)
    <3> HIDE DEF m
    <3> QED
      BY <1>2, <2>1 DEF Loops
  <2>3. Going(r, kid, todo) = [r EXCEPT !.opening = o, !.loops = ls]
    BY <1>2 DEF Going, C!Onward
  <2>4. o \subseteq Streams /\ ls \in Seq(Loops(n))
    <3> HIDE DEF l, m
    <3> QED
      BY <2>1, <2>2, AppendProperties DEF RoomStates
  <2> HIDE DEF o, ls
  <2> QED
    BY <2>3, <2>4 DEF RoomStates
<1> QED
  BY <1>1, <1>2

(* A loop ends.                                                            *)
LEMMA EndedTyped ==
  ASSUME NEW n \in Nat, NEW r \in RoomStates(n), NEW k \in 1 .. Len(r.loops)
  PROVE  C!Ended(r, k) \in RoomStates(n) /\ C!Ended(r, k).open = r.open
<1> DEFINE a == SubSeq(r.loops, 1, k - 1)
           b == SubSeq(r.loops, k + 1, Len(r.loops))
           ls == a \o b
           o == r.opening \ {r.loops[k].at}
<1>1. r.loops \in Seq(Loops(n)) /\ Len(r.loops) \in Nat
  BY DEF RoomStates
<1>2. a \in Seq(Loops(n)) /\ b \in Seq(Loops(n))
  <2>1. /\ 1 \in Int /\ k - 1 \in Int /\ k + 1 \in Int /\ Len(r.loops) \in Int
        /\ \A i \in 1 .. k - 1 : r.loops[i] \in Loops(n)
        /\ \A i \in k + 1 .. Len(r.loops) : r.loops[i] \in Loops(n)
    BY <1>1
  <2> QED
    BY <2>1, SubSeqProperties
<1>3. ls \in Seq(Loops(n))
  <2> HIDE DEF a, b
  <2> QED
    BY <1>2, ConcatProperties
<1>4. C!Ended(r, k) = [r EXCEPT !.opening = o, !.loops = ls]
  BY DEF C!Ended, C!Less
<1>5. o \subseteq Streams
  BY DEF RoomStates
<1> HIDE DEF o, ls
<1> QED
  BY <1>3, <1>4, <1>5 DEF RoomStates

(* The loops a closed connection leaves are loops there were.              *)
LEMMA CutTyped ==
  ASSUME NEW n \in Nat, NEW r \in RoomStates(n), NEW p
  PROVE  C!Cut(r, p) \in RoomStates(n) /\ C!Cut(r, p).open = r.open
<1> DEFINE S == DOMAIN r.loops \ C!Asking(r, p)
           ls == C!Kept(r.loops, S)
           o == r.opening \ {r.loops[k].at : k \in C!Asking(r, p)}
<1>1. /\ r.loops \in Seq(Loops(n)) /\ Len(r.loops) \in Nat /\ DOMAIN r.loops = 1 .. Len(r.loops)
      /\ \A i \in 1 .. Len(r.loops) : r.loops[i] \in Loops(n)
  BY LenProperties DEF RoomStates
<1>2. S \subseteq 1 .. Len(r.loops)
  BY <1>1
<1>3. \A T : C!Cardinality(T) = Cardinality(T)
  BY DEF C!Cardinality, Cardinality
<1>4. Cardinality(S) \in Nat
  <2>1. IsFiniteSet(1 .. Len(r.loops))
    BY <1>1, FS_Interval
  <2> QED
    BY <1>2, <2>1, FS_Subset, FS_CardinalityType
<1>5. \A k \in 1 .. Cardinality(S) : r.loops[C!Nth(S, k)] \in Loops(n)
  <2> SUFFICES ASSUME NEW k \in 1 .. Cardinality(S) PROVE C!Nth(S, k) \in 1 .. Len(r.loops)
    BY <1>1
  <2> HIDE DEF S
  <2>1. PICK i \in S : Cardinality(UpTo(S, i)) = k
    BY <1>1, <1>2, EveryRank
  <2>2. C!Cardinality({j \in S : j <= i}) = k
    BY <1>3, <2>1 DEF UpTo
  <2>3. C!Nth(S, k) \in S
    BY <2>2 DEF C!Nth
  <2> QED
    BY <1>2, <2>3
<1>6. ls \in Seq(Loops(n))
  <2> HIDE DEF S
  <2>1. ls = [k \in 1 .. Cardinality(S) |-> r.loops[C!Nth(S, k)]]
    BY <1>3 DEF C!Kept
  <2>2. ls \in [1 .. Cardinality(S) -> Loops(n)]
    BY <1>5, <2>1
  <2> HIDE DEF ls
  <2> QED
    BY <1>4, <2>2
<1>7. C!Cut(r, p) = [r EXCEPT !.opening = o, !.loops = ls]
  BY DEF C!Cut
<1>8. o \subseteq Streams
  BY DEF RoomStates
<1> HIDE DEF o, ls
<1> QED
  BY <1>6, <1>7, <1>8 DEF RoomStates

(* A new connection clears what was open; one more child may be named.     *)
LEMMA ClearedTyped ==
  ASSUME NEW n \in Nat, NEW r \in RoomStates(n)
  PROVE  C!Cleared(r) \in RoomStates(n) /\ C!Cleared(r).open = {}
  BY DEF C!Cleared, RoomStates

(* What holds of the rooms with n children holds with one more.            *)
LEMMA MoreKids ==
  ASSUME NEW n \in Nat, NEW r \in RoomStates(n)
  PROVE  r \in RoomStates(n + 1)
<1>1. Loops(n) \subseteq Loops(n + 1)
  BY DEF Loops
<1>2. r.loops \in Seq(Loops(n + 1))
  BY <1>1, SeqMonotonic DEF RoomStates
<1> QED
  BY <1>2 DEF RoomStates
-----------------------------------------------------------------------------
(* ChildHost: the steps.                                                   *)

StateTyped(s, n) == s \in [state : States, stopped : BOOLEAN, timer : BOOLEAN, wire : 0 .. n]
Talks(kid) == kid.up /\ ~kid.shut

(* What a step makes of the state, its fields of their types.              *)
LEMMA StateChanges ==
  ASSUME NEW n \in Nat, NEW s, StateTyped(s, n)
  PROVE  /\ \A x \in States : LET t == [s EXCEPT !.wire = 0, !.state = x]
                              IN  StateTyped(t, n) /\ t.wire = 0
         /\ LET t == C!Restarts(s) IN StateTyped(t, n) /\ t.wire = 0 /\ ~t.timer
         /\ LET t == C!Scheduled(s) IN StateTyped(t, n) /\ t.wire = s.wire
         /\ LET t == [s EXCEPT !.state = "starting", !.wire = n + 1]
            IN  StateTyped(t, n + 1) /\ t.wire = n + 1 /\ (t.timer => s.timer)
<1>1. ASSUME NEW x \in States
      PROVE  LET t == [s EXCEPT !.wire = 0, !.state = x] IN StateTyped(t, n) /\ t.wire = 0
  <2>1. 0 \in 0 .. n
    OBVIOUS
  <2> QED
    BY <2>1 DEF StateTyped
<1>2. LET t == C!Restarts(s) IN StateTyped(t, n) /\ t.wire = 0 /\ ~t.timer
  <2>1. 0 \in 0 .. n
    OBVIOUS
  <2> QED
    BY <2>1 DEF StateTyped, C!Restarts
<1>3. LET t == C!Scheduled(s) IN StateTyped(t, n) /\ t.wire = s.wire
  BY DEF StateTyped, C!Scheduled
<1>4. LET t == [s EXCEPT !.state = "starting", !.wire = n + 1]
      IN  StateTyped(t, n + 1) /\ t.wire = n + 1 /\ (t.timer => s.timer)
  <2>1. "starting" \in States /\ n + 1 \in 0 .. n + 1
    BY DEF States
  <2> QED
    BY <2>1 DEF StateTyped
<1> QED
  BY <1>1, <1>2, <1>3, <1>4

(* A kid in the place of a kid.                                            *)
LEMMA KidReplaced ==
  ASSUME NEW ks \in Seq(Kids), NEW p \in 1 .. Len(ks), NEW q \in Kids
  PROVE  /\ [ks EXCEPT ![p] = q] \in Seq(Kids) /\ Len([ks EXCEPT ![p] = q]) = Len(ks)
         /\ \A i \in 1 .. Len(ks) : [ks EXCEPT ![p] = q][i] = IF i = p THEN q ELSE ks[i]
  BY ExceptSeq

(* What the child in use does, it goes on being the one: it may be told to *)
(* end, and what it opens is added to what is open.                        *)
LEMMA InUseKeeps ==
  ASSUME ChildKept, st.wire # 0, NEW q \in Kids,
         kids' = [kids EXCEPT ![st.wire] = q], kids[st.wire].opened \subseteq q.opened,
         StateTyped(st', Len(kids)), st'.wire = st.wire, st'.timer = st.timer,
         rooms' \in RoomStates(Len(kids)), rooms'.open \subseteq rooms.open \cup q.opened
  PROVE  ChildKept'
<1>1. st.wire \in 1 .. Len(kids) /\ kids \in Seq(Kids) /\ Len(kids) \in Nat
  BY DEF ChildKept, ChildTyped
<1>2. /\ kids' \in Seq(Kids) /\ Len(kids') = Len(kids)
      /\ \A i \in 1 .. Len(kids) : kids'[i] = IF i = st.wire THEN q ELSE kids[i]
  BY <1>1, KidReplaced
<1>3. DOMAIN kids' = 1 .. Len(kids) /\ DOMAIN kids = 1 .. Len(kids)
  BY <1>1, <1>2
<1>4. C!OneChild'
  <2>1. \A i \in 1 .. Len(kids) : Talks(kids[i]) => st.wire = i
    BY <1>3 DEF ChildKept, C!OneChild, Talks
  <2>2. \A i \in 1 .. Len(kids) : Talks(kids'[i]) => st'.wire = i
    BY <1>2, <2>1
  <2>3. st'.timer => st'.wire = 0
    BY DEF ChildKept, C!OneChild
  <2> QED
    BY <1>3, <2>2, <2>3 DEF C!OneChild, Talks
<1>5. C!OpenIsTheChilds'
  <2>1. rooms.open \subseteq kids[st.wire].opened
    BY DEF ChildKept, C!OpenIsTheChilds
  <2>2. kids'[st.wire] = q
    BY <1>1, <1>2
  <2> QED
    BY <2>1, <2>2 DEF C!OpenIsTheChilds
<1> QED
  BY <1>2, <1>4, <1>5 DEF ChildKept, ChildTyped, StateTyped

(* Of the same child, where it opens nothing and no room is opened.        *)
LEMMA InUseStays ==
  ASSUME ChildKept, st.wire # 0, NEW q \in Kids, q.opened = kids[st.wire].opened,
         kids' = [kids EXCEPT ![st.wire] = q],
         StateTyped(st', Len(kids)), st'.wire = st.wire, st'.timer = st.timer,
         rooms' \in RoomStates(Len(kids)), rooms'.open = rooms.open
  PROVE  ChildKept'
<1>1. kids[st.wire].opened \subseteq q.opened /\ rooms'.open \subseteq rooms.open \cup q.opened
  OBVIOUS
<1> QED
  BY <1>1, InUseKeeps

(* Rooms change, the child in use stays and has nothing more open.         *)
LEMMA RoomsKeep ==
  ASSUME ChildKept, UNCHANGED <<st, kids>>,
         rooms' \in RoomStates(Len(kids)), rooms'.open \subseteq rooms.open
  PROVE  ChildKept'
<1>1. C!OneChild'
  BY DEF ChildKept, C!OneChild
<1>2. C!OpenIsTheChilds'
  BY DEF ChildKept, C!OpenIsTheChilds
<1> QED
  BY <1>1, <1>2 DEF ChildKept, ChildTyped

(* A new child where none is left that was not told to end.                *)
LEMMA ConnectsKeeps ==
  ASSUME NEW ks \in Seq(Kids), \A i \in 1 .. Len(ks) : ~Talks(ks[i]),
         kids' = Append(ks, C!Kid), NEW r \in RoomStates(Len(ks)), rooms' = C!Cleared(r),
         StateTyped(st', Len(ks) + 1), st'.wire = Len(ks) + 1, ~st'.timer
  PROVE  ChildKept'
<1>1. C!Kid \in Kids
  BY DEF C!Kid, Kids
<1>2. /\ kids' \in Seq(Kids) /\ Len(kids') = Len(ks) + 1 /\ Len(ks) \in Nat
      /\ \A i \in 1 .. Len(ks) : kids'[i] = ks[i]
  BY <1>1, AppendProperties
<1>3. rooms' \in RoomStates(Len(kids')) /\ rooms'.open = {}
  BY <1>2, ClearedTyped, MoreKids
<1>4. C!OneChild'
  <2>1. DOMAIN kids' = 1 .. Len(ks) + 1
    BY <1>2
  <2>2. \A i \in 1 .. Len(ks) + 1 : Talks(kids'[i]) => st'.wire = i
    BY <1>2
  <2> QED
    BY <2>1, <2>2 DEF C!OneChild, Talks
<1>5. C!OpenIsTheChilds'
  BY <1>3 DEF C!OpenIsTheChilds
<1> QED
  BY <1>2, <1>3, <1>4, <1>5 DEF ChildKept, ChildTyped, StateTyped

(* The handshake, and its failures.                                        *)
LEMMA HandshakeKeeps ==
  ASSUME ChildKept, C!Handshake \/ C!HandshakeFails
  PROVE  ChildKept'
<1>1. st.wire \in 1 .. Len(kids) /\ kids[st.wire] \in Kids /\ Len(kids) \in Nat /\ rooms \in RoomStates(Len(kids))
      /\ StateTyped(st, Len(kids))
  <2>1. st.wire # 0
    BY DEF C!Handshake, C!HandshakeFails, C!AnswersInit, C!AnswersGrant, C!AnswersTools, C!At, C!Live
  <2> QED
    BY <2>1, ElementOfSeq DEF ChildKept, ChildTyped, StateTyped
<1>2. \A x \in States : /\ StateTyped([st EXCEPT !.state = x], Len(kids))
                        /\ [st EXCEPT !.state = x].wire = st.wire /\ [st EXCEPT !.state = x].timer = st.timer
  BY <1>1 DEF StateTyped
<1>3. /\ StateTyped([st EXCEPT !.state = "stopped", !.stopped = TRUE], Len(kids))
      /\ [st EXCEPT !.state = "stopped", !.stopped = TRUE].wire = st.wire
      /\ [st EXCEPT !.state = "stopped", !.stopped = TRUE].timer = st.timer
  BY <1>1 DEF StateTyped, States
<1>4. \A x \in {"init", "grant", "tools", "done"} :
        /\ [kids[st.wire] EXCEPT !.stage = x] \in Kids
        /\ [kids[st.wire] EXCEPT !.stage = x].opened = kids[st.wire].opened
        /\ [kids[st.wire] EXCEPT !.stage = x, !.shut = TRUE] \in Kids
        /\ [kids[st.wire] EXCEPT !.stage = x, !.shut = TRUE].opened = kids[st.wire].opened
  BY <1>1 DEF Kids
<1>5. \A x : C!To(x) => kids' = [kids EXCEPT ![st.wire] = [kids[st.wire] EXCEPT !.stage = x]]
  BY DEF C!To
<1>6. C!Cut(rooms, st.wire) \in RoomStates(Len(kids)) /\ C!Cut(rooms, st.wire).open = rooms.open
  BY <1>1, CutTyped
<1>7. CASE C!AnswersInit
  <2>1. /\ \E x \in {"init", "grant", "tools", "done"} : C!To(x)
        /\ st' = st \/ st' = [st EXCEPT !.state = "mcp-only"]
        /\ rooms' = rooms
    BY <1>7 DEF C!AnswersInit
  <2>2. PICK x \in {"init", "grant", "tools", "done"} : C!To(x)
    BY <2>1
  <2>3. StateTyped(st', Len(kids)) /\ st'.wire = st.wire /\ st'.timer = st.timer
    BY <1>1, <1>2, <2>1 DEF States
  <2> DEFINE q == [kids[st.wire] EXCEPT !.stage = x]
  <2>4. q \in Kids /\ q.opened = kids[st.wire].opened /\ kids' = [kids EXCEPT ![st.wire] = q]
    BY <1>4, <1>5, <2>2
  <2> HIDE DEF q
  <2>5. st.wire # 0 /\ rooms' \in RoomStates(Len(kids)) /\ rooms'.open = rooms.open
    BY <1>1, <2>1
  <2>6. q \in Kids
    BY <2>4
  <2>7. q.opened = kids[st.wire].opened
    BY <2>4
  <2>8. kids' = [kids EXCEPT ![st.wire] = q]
    BY <2>4
  <2> QED
    BY <2>3, <2>5, <2>6, <2>7, <2>8, InUseStays
<1>8. CASE C!AnswersTools
  <2>1. C!To("done") /\ rooms' = Going(rooms, st.wire, Streams) /\ st' = st
    BY <1>8 DEF C!AnswersTools, Going
  <2>2. rooms' \in RoomStates(Len(kids)) /\ rooms'.open = rooms.open
    BY <1>1, <2>1, GoingTyped
  <2> DEFINE q == [kids[st.wire] EXCEPT !.stage = "done"]
  <2>3. q \in Kids /\ q.opened = kids[st.wire].opened /\ kids' = [kids EXCEPT ![st.wire] = q]
    BY <1>4, <1>5, <2>1
  <2> HIDE DEF q
  <2>4. st.wire # 0 /\ rooms' \in RoomStates(Len(kids)) /\ rooms'.open = rooms.open
    BY <1>1, <2>1, <2>2
  <2>5. StateTyped(st', Len(kids)) /\ st'.wire = st.wire /\ st'.timer = st.timer
    BY <1>1, <2>1 DEF StateTyped
  <2>6. q \in Kids
    BY <2>3
  <2>7. q.opened = kids[st.wire].opened
    BY <2>3
  <2>8. kids' = [kids EXCEPT ![st.wire] = q]
    BY <2>3
  <2> QED
    BY <2>4, <2>5, <2>6, <2>7, <2>8, InUseStays
<1>9. CASE C!AnswersGrant /\ rooms' = rooms /\ (st' = [st EXCEPT !.state = "ready"] \/ st' = [st EXCEPT !.state = "mcp-only"])
           /\ (C!To("tools") \/ C!To("done"))
  <2>1. StateTyped(st', Len(kids)) /\ st'.wire = st.wire /\ st'.timer = st.timer
    BY <1>2, <1>9 DEF States
  <2>2. PICK x \in {"init", "grant", "tools", "done"} : C!To(x)
    BY <1>9
  <2> DEFINE q == [kids[st.wire] EXCEPT !.stage = x]
  <2>3. q \in Kids /\ q.opened = kids[st.wire].opened /\ kids' = [kids EXCEPT ![st.wire] = q]
    BY <1>4, <1>5, <2>2
  <2> HIDE DEF q
  <2>4. st.wire # 0 /\ rooms' \in RoomStates(Len(kids)) /\ rooms'.open = rooms.open
    BY <1>1, <1>9
  <2>5. q \in Kids
    BY <2>3
  <2>6. q.opened = kids[st.wire].opened
    BY <2>3
  <2>7. kids' = [kids EXCEPT ![st.wire] = q]
    BY <2>3
  <2> QED
    BY <2>1, <2>4, <2>5, <2>6, <2>7, InUseStays
<1>10. ASSUME kids' = [kids EXCEPT ![st.wire].stage = "done", ![st.wire].shut = TRUE], rooms' = C!Cut(rooms, st.wire),
              st' = st \/ st' = [st EXCEPT !.state = "stopped", !.stopped = TRUE]
       PROVE  ChildKept'
  <2>1. StateTyped(st', Len(kids)) /\ st'.wire = st.wire /\ st'.timer = st.timer
    BY <1>1, <1>3, <1>10
  <2> DEFINE q == [kids[st.wire] EXCEPT !.stage = "done", !.shut = TRUE]
  <2>2. q \in Kids /\ q.opened = kids[st.wire].opened
    BY <1>4
  <2>3. kids' = [kids EXCEPT ![st.wire] = q]
    BY <1>10
  <2> HIDE DEF q
  <2>4. st.wire # 0 /\ rooms' \in RoomStates(Len(kids)) /\ rooms'.open = rooms.open
    BY <1>1, <1>6, <1>10
  <2>5. q \in Kids
    BY <2>2
  <2>6. q.opened = kids[st.wire].opened
    BY <2>2
  <2> QED
    BY <2>1, <2>3, <2>4, <2>5, <2>6, InUseStays
<1>11. CASE C!AnswersGrant
  BY <1>9, <1>10, <1>11 DEF C!AnswersGrant
<1>12. CASE C!HandshakeFails
  BY <1>10, <1>12 DEF C!HandshakeFails
<1> QED
  BY <1>7, <1>8, <1>11, <1>12 DEF C!Handshake
(* Channels come and go, and the loops go on.                              *)
LEMMA ChannelsKeep ==
  ASSUME ChildKept, NEW s \in Streams, C!Registers(s) \/ C!Removes(s)
  PROVE  ChildKept'
<1>1. st.wire \in 1 .. Len(kids) /\ rooms \in RoomStates(Len(kids)) /\ Len(kids) \in Nat
  <2>1. st.wire # 0
    BY DEF C!Registers, C!Removes, C!Live
  <2> QED
    BY <2>1 DEF ChildKept, ChildTyped
<1>2. CASE C!Registers(s)
  <2> DEFINE r == [rooms EXCEPT !.channels = @ \cup {s}]
  <2>1. r \in RoomStates(Len(kids)) /\ r.open = rooms.open
    BY <1>1 DEF RoomStates
  <2>2. rooms' = Going(r, st.wire, Streams) /\ UNCHANGED <<st, kids>>
    BY <1>2 DEF C!Registers, Going
  <2> HIDE DEF r
  <2>3. rooms' \in RoomStates(Len(kids)) /\ rooms'.open = rooms.open
    BY <1>1, <2>1, <2>2, GoingTyped
  <2> QED
    BY <2>2, <2>3, RoomsKeep
<1>3. CASE C!Removes(s)
  <2>1. rooms' \in RoomStates(Len(kids)) /\ rooms'.open \subseteq rooms.open /\ UNCHANGED <<st, kids>>
    BY <1>1, <1>3 DEF C!Removes, RoomStates
  <2> QED
    BY <2>1, RoomsKeep
<1> QED
  BY <1>2, <1>3

(* A loop that goes on or ends opens at most the stream it was at.         *)
LEMMA LoopsKeep ==
  ASSUME ChildKept, NEW k \in DOMAIN rooms.loops, C!NotOpened(k) \/ C!HistoryDone(k)
  PROVE  ChildKept'
<1> DEFINE l == rooms.loops[k]
           r == C!Ended(rooms, k)
<1>1. /\ rooms \in RoomStates(Len(kids)) /\ Len(kids) \in Nat /\ k \in 1 .. Len(rooms.loops)
      /\ l.kid \in 1 .. Len(kids) /\ l.todo \subseteq Streams
  <2>1. rooms.loops \in Seq(Loops(Len(kids)))
    BY DEF ChildKept, ChildTyped, RoomStates
  <2>2. k \in 1 .. Len(rooms.loops) /\ l \in Loops(Len(kids))
    BY <2>1, LenProperties, ElementOfSeq
  <2> HIDE DEF l
  <2> QED
    BY <2>2 DEF ChildKept, ChildTyped, Loops
<1>2. r \in RoomStates(Len(kids)) /\ r.open = rooms.open
  BY <1>1, EndedTyped
<1>3. UNCHANGED <<st, kids>>
  BY DEF C!NotOpened, C!HistoryDone
<1>4. \/ rooms' = Going(r, st.wire, l.todo) /\ st.wire # 0
      \/ rooms' = r
  <2>1. CASE C!NotOpened(k)
    <3>1. kids[l.kid].up /\ ~kids[l.kid].shut
      BY <2>1 DEF C!NotOpened
    <3>2. st.wire = l.kid
      <4>1. l.kid \in DOMAIN kids
        BY <1>1 DEF ChildKept, ChildTyped
      <4> QED
        BY <3>1, <4>1 DEF ChildKept, C!OneChild
    <3>3. rooms' = Going(r, st.wire, l.todo)
      BY <2>1 DEF C!NotOpened, Going
    <3> HIDE DEF l, r
    <3> QED
      BY <1>1, <3>2, <3>3
  <2>2. CASE C!HistoryDone(k)
    <3>1. rooms' = C!Onward(r, C!Live(st, kids), st.wire, l.todo)
      BY <2>2 DEF C!HistoryDone
    <3> HIDE DEF l, r
    <3>2. CASE C!Live(st, kids)
      <4>1. C!Live(st, kids) = TRUE
        BY <3>2 DEF C!Live
      <4> QED
        BY <3>1, <4>1, <3>2 DEF Going, C!Live
    <3>3. CASE ~C!Live(st, kids)
      BY <3>1, <3>3 DEF C!Onward
    <3> QED
      BY <3>2, <3>3
  <2> QED
    BY <2>1, <2>2
<1> HIDE DEF l, r
<1>5. rooms' \in RoomStates(Len(kids)) /\ rooms'.open \subseteq rooms.open
  <2>1. st.wire # 0 => st.wire \in 1 .. Len(kids)
    BY DEF ChildKept, ChildTyped
  <2> QED
    BY <1>1, <1>2, <1>4, <2>1, GoingTyped
<1> QED
  BY <1>3, <1>5, RoomsKeep DEF l

(* A room is opened: the child that answers is the one in use, as every    *)
(* other was told to end.                                                  *)
LEMMA OpeningKeeps ==
  ASSUME ChildKept, NEW k \in DOMAIN rooms.loops, C!Opened(k)
  PROVE  ChildKept'
<1> DEFINE l == rooms.loops[k]
<1>1. /\ rooms \in RoomStates(Len(kids)) /\ Len(kids) \in Nat /\ k \in 1 .. Len(rooms.loops)
      /\ l \in Loops(Len(kids)) /\ rooms.loops \in Seq(Loops(Len(kids)))
  <2>1. rooms.loops \in Seq(Loops(Len(kids)))
    BY DEF ChildKept, ChildTyped, RoomStates
  <2>2. k \in 1 .. Len(rooms.loops) /\ l \in Loops(Len(kids))
    BY <2>1, LenProperties, ElementOfSeq
  <2> HIDE DEF l
  <2> QED
    BY <2>1, <2>2 DEF ChildKept, ChildTyped
<1>2. l.kid \in 1 .. Len(kids) /\ l.at \in Streams
  <2> HIDE DEF l
  <2> QED
    BY <1>1 DEF Loops
<1>3. st.wire = l.kid /\ st.wire # 0
  <2>1. kids[l.kid].up /\ ~kids[l.kid].shut
    BY DEF C!Opened
  <2>2. l.kid \in DOMAIN kids
    BY <1>2 DEF ChildKept, ChildTyped
  <2> QED
    BY <1>2, <2>1, <2>2 DEF ChildKept, C!OneChild
<1> DEFINE q == [kids[st.wire] EXCEPT !.opened = @ \cup {l.at}]
           m == [l EXCEPT !.phase = "history"]
           ls == [rooms.loops EXCEPT ![k] = m]
           o == rooms.open \cup {l.at}
<1>4. /\ kids' = [kids EXCEPT ![st.wire] = q]
      /\ rooms' = [rooms EXCEPT !.open = o, !.loops = ls]
      /\ st' = st
  BY <1>3 DEF C!Opened
<1>5. m \in Loops(Len(kids))
  <2> HIDE DEF l
  <2> QED
    BY <1>1 DEF Loops
<1>6. ls \in Seq(Loops(Len(kids)))
  <2> HIDE DEF m
  <2> QED
    BY <1>1, <1>5, ExceptSeq
<1>7. o \subseteq Streams
  BY <1>1, <1>2 DEF RoomStates
<1>8. q \in Kids /\ kids[st.wire].opened \subseteq q.opened /\ l.at \in q.opened
  <2>1. kids[st.wire] \in Kids
    BY <1>2, <1>3, ElementOfSeq DEF ChildKept, ChildTyped
  <2> HIDE DEF l
  <2> QED
    BY <1>2, <2>1 DEF Kids
<1>9. rooms' \in RoomStates(Len(kids)) /\ rooms'.open = o
  <2> HIDE DEF o, ls
  <2> QED
    BY <1>1, <1>4, <1>6, <1>7 DEF RoomStates
<1>10. rooms'.open \subseteq rooms.open \cup q.opened
  <2> HIDE DEF q
  <2> QED
    BY <1>8, <1>9
<1>11. StateTyped(st', Len(kids)) /\ st'.wire = st.wire /\ st'.timer = st.timer
  BY <1>4 DEF StateTyped, ChildKept, ChildTyped
<1>12. q \in Kids
  BY <1>8
<1>13. kids[st.wire].opened \subseteq q.opened
  BY <1>8
<1>14. kids' = [kids EXCEPT ![st.wire] = q]
  BY <1>4
<1>15. rooms' \in RoomStates(Len(kids))
  BY <1>9
<1>16. st.wire # 0
  BY <1>3
<1> HIDE DEF q
<1> QED
  BY <1>10, <1>11, <1>12, <1>13, <1>14, <1>15, <1>16, InUseKeeps
(* A restart that cannot spawn, the timer's connection, the exit of a      *)
(* child.                                                                  *)
LEMMA TimersKeep ==
  ASSUME ChildKept, C!SpawnThrows \/ C!TimerFires
  PROVE  ChildKept'
<1>1. /\ kids \in Seq(Kids) /\ Len(kids) \in Nat /\ DOMAIN kids = 1 .. Len(kids)
      /\ rooms \in RoomStates(Len(kids)) /\ StateTyped(st, Len(kids))
  BY DEF ChildKept, ChildTyped, StateTyped
<1>2. st.wire = 0 /\ \A i \in 1 .. Len(kids) : ~Talks(kids[i])
  <2>1. st.wire = 0
    BY DEF C!SpawnThrows, C!TimerFires, ChildKept, C!OneChild
  <2>2. \A i \in 1 .. Len(kids) : kids[i].up /\ ~kids[i].shut => i = 0
    BY <1>1, <2>1 DEF ChildKept, C!OneChild
  <2> QED
    BY <2>1, <2>2 DEF Talks
<1>3. CASE C!SpawnThrows
  <2>1. kids' = kids /\ rooms' = C!Cleared(rooms) /\ st' = C!Scheduled([st EXCEPT !.state = "crashed"])
    BY <1>3 DEF C!SpawnThrows
  <2>2. StateTyped(st', Len(kids)) /\ st'.wire = 0
    BY <1>1, <1>2, <2>1 DEF C!Scheduled, StateTyped, States
  <2>3. rooms' \in RoomStates(Len(kids))
    BY <1>1, <2>1, ClearedTyped
  <2>4. C!OneChild' /\ C!OpenIsTheChilds'
    BY <1>1, <1>2, <2>1, <2>2 DEF C!OneChild, C!OpenIsTheChilds, Talks
  <2> QED
    BY <1>1, <2>1, <2>2, <2>3, <2>4 DEF ChildKept, ChildTyped, StateTyped
<1>4. CASE C!TimerFires /\ st.stopped
  <2>1. kids' = kids /\ rooms' = rooms /\ st' = [st EXCEPT !.timer = FALSE]
    BY <1>4 DEF C!TimerFires, C!Connects, C!Disarmed, StateTyped
  <2>2. StateTyped(st', Len(kids)) /\ st'.wire = 0
    BY <1>1, <1>2, <2>1 DEF StateTyped
  <2>3. C!OneChild' /\ C!OpenIsTheChilds'
    BY <1>1, <1>2, <2>1, <2>2 DEF C!OneChild, C!OpenIsTheChilds, Talks
  <2> QED
    BY <1>1, <2>1, <2>2, <2>3 DEF ChildKept, ChildTyped, StateTyped
<1>5. CASE C!TimerFires /\ ~st.stopped
  <2> DEFINE s == C!Disarmed(st)
  <2>1. StateTyped(s, Len(kids)) /\ ~s.timer /\ s.stopped = st.stopped
    BY <1>1 DEF C!Disarmed, StateTyped
  <2>2. /\ kids' = Append(kids, C!Kid) /\ rooms' = C!Cleared(rooms)
        /\ st' = [s EXCEPT !.state = "starting", !.wire = Len(kids) + 1]
    <3>1. C!Connects(s, rooms) /\ ~s.stopped
      BY <1>5, <2>1 DEF C!TimerFires
    <3> HIDE DEF s
    <3> QED
      BY <3>1 DEF C!Connects
  <2> HIDE DEF s
  <2>3. StateTyped(st', Len(kids) + 1) /\ st'.wire = Len(kids) + 1 /\ ~st'.timer
    BY <1>1, <2>1, <2>2, StateChanges
  <2> QED
    BY <1>1, <1>2, <2>2, <2>3, ConnectsKeeps
<1> QED
  BY <1>3, <1>4, <1>5

(* A child's exit cuts its loops and closes what was open through it.      *)
LEMMA ExitKeeps ==
  ASSUME ChildKept, NEW p \in DOMAIN kids, C!Exits(p)
  PROVE  ChildKept'
<1>1. /\ kids \in Seq(Kids) /\ Len(kids) \in Nat /\ DOMAIN kids = 1 .. Len(kids) /\ p \in 1 .. Len(kids)
      /\ rooms \in RoomStates(Len(kids)) /\ StateTyped(st, Len(kids))
  BY DEF ChildKept, ChildTyped, StateTyped
<1>2. C!Gone \in Kids /\ ~Talks(C!Gone)
  BY DEF C!Gone, Kids, Talks
<1>3. kids' = [kids EXCEPT ![p] = C!Gone] /\ rooms' = C!Cut(rooms, p)
  BY DEF C!Exits
<1>4. /\ kids' \in Seq(Kids) /\ Len(kids') = Len(kids) /\ DOMAIN kids' = 1 .. Len(kids)
      /\ \A i \in 1 .. Len(kids) : kids'[i] = IF i = p THEN C!Gone ELSE kids[i]
  <2>1. /\ kids' \in Seq(Kids) /\ Len(kids') = Len(kids)
        /\ \A i \in 1 .. Len(kids) : kids'[i] = IF i = p THEN C!Gone ELSE kids[i]
    BY <1>1, <1>2, <1>3, KidReplaced
  <2> QED
    BY <2>1
<1>5. rooms' \in RoomStates(Len(kids)) /\ rooms'.open = rooms.open
  BY <1>1, <1>3, CutTyped
<1>6. \A i \in 1 .. Len(kids) : Talks(kids[i]) => st.wire = i
  BY <1>1 DEF ChildKept, C!OneChild, Talks
<1>7. CASE st.wire # p
  <2>1. st' = st
    BY <1>7 DEF C!Exits
  <2>2. \A i \in 1 .. Len(kids) : Talks(kids'[i]) => st'.wire = i
    BY <1>2, <1>4, <1>6, <2>1
  <2>3. C!OneChild'
    BY <1>4, <2>1, <2>2 DEF ChildKept, C!OneChild, Talks
  <2>4. C!OpenIsTheChilds'
    <3>1. st.wire # 0 => kids'[st.wire] = kids[st.wire]
      BY <1>1, <1>4, <1>7 DEF StateTyped
    <3> QED
      BY <1>5, <2>1, <3>1 DEF ChildKept, C!OpenIsTheChilds
  <2> QED
    BY <1>1, <1>4, <1>5, <2>1, <2>3, <2>4 DEF ChildKept, ChildTyped, StateTyped
<1>8. CASE st.wire = p
  <2>1. StateTyped(st', Len(kids)) /\ st'.wire = 0
    <3> DEFINE s == [st EXCEPT !.wire = 0, !.state = "crashed"]
    <3>1. StateTyped(s, Len(kids)) /\ s.wire = 0
      BY <1>1, StateChanges DEF States
    <3>2. StateTyped(C!Scheduled(s), Len(kids)) /\ C!Scheduled(s).wire = 0
      <4> HIDE DEF s
      <4> QED
        BY <1>1, <3>1, StateChanges
    <3>3. CASE st.stopped
      <4>1. st' = [st EXCEPT !.wire = 0, !.state = "stopped"]
        BY <1>8, <3>3 DEF C!Exits
      <4> QED
        BY <1>1, <4>1, StateChanges DEF States
    <3>4. CASE ~st.stopped
      BY <1>8, <3>2, <3>4 DEF C!Exits
    <3> QED
      BY <3>3, <3>4
  <2>2. \A i \in 1 .. Len(kids) : ~Talks(kids'[i])
    BY <1>2, <1>4, <1>6, <1>8
  <2>3. C!OneChild' /\ C!OpenIsTheChilds'
    BY <1>4, <2>1, <2>2 DEF C!OneChild, C!OpenIsTheChilds, Talks
  <2> QED
    BY <1>4, <1>5, <2>1, <2>3 DEF ChildKept, ChildTyped, StateTyped
<1> QED
  BY <1>7, <1>8

(* The keeper: the child in use is told to end, and after a restart a new  *)
(* one is connected.                                                       *)
Told == [p \in DOMAIN kids |-> IF p = st.wire THEN [kids[p] EXCEPT !.shut = TRUE, !.stage = "done"] ELSE kids[p]]

(* A child told to go opens no further, and what it opened stays.          *)
LEMMA ToldTyped ==
  ASSUME ChildKept
  PROVE  /\ Told \in Seq(Kids) /\ Len(Told) = Len(kids) /\ DOMAIN Told = 1 .. Len(kids) /\ Len(kids) \in Nat
         /\ \A i \in 1 .. Len(kids) : ~Talks(Told[i]) /\ Told[i].opened = kids[i].opened
<1>1. kids \in Seq(Kids) /\ Len(kids) \in Nat /\ DOMAIN kids = 1 .. Len(kids)
  BY DEF ChildKept, ChildTyped
<1>2. \A q \in Kids : /\ [q EXCEPT !.shut = TRUE, !.stage = "done"] \in Kids
                      /\ ~Talks([q EXCEPT !.shut = TRUE, !.stage = "done"])
                      /\ [q EXCEPT !.shut = TRUE, !.stage = "done"].opened = q.opened
  BY DEF Kids, Talks
<1>3. \A i \in 1 .. Len(kids) : kids[i] \in Kids /\ (Talks(kids[i]) => i = st.wire)
  <2>1. \A i \in 1 .. Len(kids) : kids[i] \in Kids
    BY <1>1, ElementOfSeq
  <2> QED
    BY <1>1, <2>1 DEF ChildKept, C!OneChild, Talks
<1>4. /\ Told \in [1 .. Len(kids) -> Kids]
      /\ \A i \in 1 .. Len(kids) : ~Talks(Told[i]) /\ Told[i].opened = kids[i].opened
  BY <1>1, <1>2, <1>3 DEF Told
<1> QED
  BY <1>1, <1>4

(* When the keeper restarts or stops, the child in use is let go.          *)
LEMMA KeeperKeeps ==
  ASSUME ChildKept, C!KeeperRestarts \/ C!Stops
  PROVE  ChildKept'
<1>1. /\ Told \in Seq(Kids) /\ Len(Told) = Len(kids) /\ DOMAIN Told = 1 .. Len(kids) /\ Len(kids) \in Nat
      /\ \A i \in 1 .. Len(kids) : ~Talks(Told[i]) /\ Told[i].opened = kids[i].opened
  BY ToldTyped
<1>2. rooms \in RoomStates(Len(kids)) /\ StateTyped(st, Len(kids))
  BY DEF ChildKept, ChildTyped, StateTyped
<1>3. C!Cut(rooms, st.wire) \in RoomStates(Len(kids)) /\ C!Cut(rooms, st.wire).open = rooms.open
  BY <1>1, <1>2, CutTyped
<1>4. CASE C!Stops
  <2>1. /\ kids' = Told /\ rooms' = C!Cut(rooms, st.wire)
        /\ st' = [st EXCEPT !.stopped = TRUE, !.timer = FALSE, !.state = "stopped"]
    BY <1>4 DEF C!Stops, Told
  <2>2. StateTyped(st', Len(kids)) /\ st'.wire = st.wire /\ ~st'.timer
    BY <1>2, <2>1 DEF StateTyped, States
  <2>3. C!OneChild'
    BY <1>1, <2>1, <2>2 DEF C!OneChild, Talks
  <2>4. C!OpenIsTheChilds'
    <3>1. st.wire # 0 => st.wire \in 1 .. Len(kids)
      BY <1>2 DEF StateTyped
    <3> QED
      BY <1>1, <1>3, <2>1, <2>2, <3>1 DEF ChildKept, C!OpenIsTheChilds
  <2> QED
    BY <1>1, <1>3, <2>1, <2>2, <2>3, <2>4 DEF ChildKept, ChildTyped, StateTyped
<1> DEFINE s == C!Restarts(st)
<1>5. CASE C!KeeperRestarts /\ s.stopped
  <2>1. kids' = Told /\ rooms' = C!Cut(rooms, st.wire) /\ st' = s
    BY <1>5 DEF C!KeeperRestarts, Told
  <2>2. StateTyped(st', Len(kids)) /\ st'.wire = 0
    BY <1>1, <1>2, <2>1, StateChanges
  <2>3. C!OneChild' /\ C!OpenIsTheChilds'
    BY <1>1, <2>1, <2>2 DEF C!OneChild, C!OpenIsTheChilds, Talks
  <2> QED
    BY <1>1, <1>3, <2>1, <2>2, <2>3 DEF ChildKept, ChildTyped, StateTyped
<1>6. CASE C!KeeperRestarts /\ ~s.stopped
  <2>1. /\ kids' = Append(Told, C!Kid) /\ rooms' = C!Cleared(C!Cut(rooms, st.wire))
        /\ st' = [s EXCEPT !.state = "starting", !.wire = Len(kids) + 1]
    BY <1>6 DEF C!KeeperRestarts, Told
  <2>2. StateTyped(st', Len(Told) + 1) /\ st'.wire = Len(Told) + 1 /\ ~st'.timer
    <3>1. StateTyped(s, Len(kids)) /\ ~s.timer
      BY <1>1, <1>2, StateChanges
    <3> HIDE DEF s
    <3> QED
      BY <1>1, <2>1, <3>1, StateChanges
  <2>3. C!Cut(rooms, st.wire) \in RoomStates(Len(Told))
    BY <1>1, <1>3
  <2> QED
    BY <1>1, <2>1, <2>2, <2>3, ConnectsKeeps
<1> QED
  BY <1>4, <1>5, <1>6

(* However exits, the restart timer, the keeper's restart and the stop of  *)
(* the seat cross, the house talks to one child, arms no timer beside it,  *)
(* and takes for open what that child has opened (mcpl/host.mjs): for any  *)
(* standing rooms and any number of faults.                                *)
THEOREM OneChildAtATime ==
  Spec => []ChildHostSound
<1>1. Init => ChildKept
  <2> SUFFICES ASSUME Init PROVE ChildKept
    OBVIOUS
  <2>1. /\ st = [state |-> "starting", stopped |-> FALSE, timer |-> FALSE, wire |-> 1]
        /\ kids = <<C!Kid>> /\ rooms = C!NoRooms
    BY DEF Init, C!Init
  <2>2. C!Kid \in Kids
    BY DEF C!Kid, Kids
  <2>3. kids \in Seq(Kids) /\ Len(kids) = 1 /\ DOMAIN kids = {1}
    <3> HIDE DEF C!Kid
    <3> QED
      BY <2>1, <2>2
  <2>4. rooms \in RoomStates(Len(kids)) /\ rooms.open = {}
    BY <2>1, <2>3, EmptySeq DEF C!NoRooms, RoomStates
  <2>5. C!OneChild /\ C!OpenIsTheChilds
    BY <2>1, <2>3, <2>4 DEF C!OneChild, C!OpenIsTheChilds
  <2> QED
    BY <2>1, <2>3, <2>4, <2>5 DEF ChildKept, ChildTyped, States
<1>2. ChildKept /\ [Next]_vars => ChildKept'
  <2> SUFFICES ASSUME ChildKept, [Next]_vars PROVE ChildKept'
    OBVIOUS
  <2>1. C!Next \/ UNCHANGED childVars
    BY DEF Next, vars
  <2>2. CASE UNCHANGED childVars
    BY <2>2, RoomsKeep DEF childVars, ChildKept, ChildTyped
  <2>3. CASE C!Next
    BY <2>3, HandshakeKeeps, TimersKeep, ChannelsKeep, OpeningKeeps, LoopsKeep, ExitKeeps, KeeperKeeps
       DEF C!Next
  <2> QED
    BY <2>1, <2>2, <2>3
<1>3. ChildKept => ChildHostSound
  BY DEF ChildKept, ChildHostSound, C!Sound
<1> QED
  BY <1>1, <1>2, <1>3, PTL DEF Spec
-----------------------------------------------------------------------------
(* Lives: the chain of jobs.                                               *)

Whys == {"ensure", "catchUp", "drain", "noted", "refresh"}
Stages == {"queued", "append", "compile", "compiling", "close"}

(* A job that appends or compiles is of a room, and only a refresh and a   *)
(* catch-up append.                                                        *)
Jobs ==
  {j \in [room : LifeRooms \cup {"none"}, why : Whys, at : Stages, others : SUBSET People,
          noop : BOOLEAN, again : BOOLEAN] :
     /\ j.why # "drain" => j.room \in LifeRooms
     /\ j.at = "append" => j.why \in L!Appending
     /\ j.at \in {"compile", "compiling"} => j.why # "drain"}
Queues == {j \in Jobs : j.at = "queued"}

(* Only the head of the chain runs, and it has the store open.             *)
Chain ==
  /\ jobs \in Seq(Jobs)
  /\ \A i \in 2 .. Len(jobs) : jobs[i].at = "queued"
  /\ open # L!Closed <=> Len(jobs) # 0 /\ jobs[1].at # "queued"

(* A job that is asked for is queued at its first stage.                   *)
LEMMA JobQueues ==
  ASSUME NEW r \in LifeRooms, NEW why \in Whys \ {"drain"}
  PROVE  L!Job(r, why) \in Queues
  BY DEF L!Job, Queues, Jobs, Whys, Stages

(* So is the drain, which is of no room.                                   *)
LEMMA DrainQueues ==
  L!Job(L!Nowhere, "drain") \in Queues
  BY DEF L!Job, L!Nowhere, Queues, Jobs, Whys, Stages

(* A finite set has its elements in some order.                            *)
LEMMA SetToSeqTyped ==
  ASSUME NEW S, IsFiniteSet(S)
  PROVE  L!SetToSeq(S) \in Seq(S)
<1>1. Cardinality(S) \in Nat /\ ExistsBijection(1 .. Cardinality(S), S)
  BY FS_CardinalityType
<1>2. PICK f \in Bijection(1 .. Cardinality(S), S) : TRUE
  BY <1>1 DEF ExistsBijection
<1>3. f \in [1 .. Cardinality(S) -> S] /\ L!IsInjective(f)
  BY <1>2 DEF Bijection, Injection, Surjection, IsInjective, L!IsInjective
<1>4. \A T : L!Cardinality(T) = Cardinality(T)
  BY DEF L!Cardinality, Cardinality
<1>5. L!SetToSeq(S) \in [1 .. Cardinality(S) -> S]
  BY <1>3, <1>4 DEF L!SetToSeq
<1> QED
  BY <1>1, <1>5

(* Jobs put behind the chain leave its head as it is.                      *)
LEMMA QueueGrows ==
  ASSUME Chain, NEW t \in Seq(Queues), jobs' = jobs \o t, open' = open
  PROVE  Chain'
<1>1. jobs \in Seq(Jobs) /\ t \in Seq(Jobs) /\ Len(jobs) \in Nat /\ Len(t) \in Nat
  <2>1. Queues \subseteq Jobs
    BY DEF Queues
  <2> QED
    BY <2>1, SeqMonotonic DEF Chain
<1>2. /\ jobs' \in Seq(Jobs) /\ Len(jobs') = Len(jobs) + Len(t)
      /\ \A i \in 1 .. Len(jobs) + Len(t) : jobs'[i] = IF i <= Len(jobs) THEN jobs[i] ELSE t[i - Len(jobs)]
  BY <1>1, ConcatProperties
<1>3. \A i \in 1 .. Len(t) : t[i].at = "queued"
  BY ElementOfSeq DEF Queues
<1>4. \A i \in 2 .. Len(jobs') : jobs'[i].at = "queued"
  <2> SUFFICES ASSUME NEW i \in 2 .. Len(jobs') PROVE jobs'[i].at = "queued"
    OBVIOUS
  <2>1. i \in 1 .. Len(jobs) + Len(t)
    BY <1>1, <1>2
  <2>2. CASE i <= Len(jobs)
    BY <1>2, <2>1, <2>2 DEF Chain
  <2>3. CASE ~(i <= Len(jobs))
    <3>1. i - Len(jobs) \in 1 .. Len(t)
      BY <1>1, <2>1, <2>3
    <3> QED
      BY <1>2, <1>3, <2>1, <2>3, <3>1
  <2> QED
    BY <2>2, <2>3
<1>5. (Len(jobs') # 0 /\ jobs'[1].at # "queued") <=> (Len(jobs) # 0 /\ jobs[1].at # "queued")
  <2>1. CASE Len(jobs) # 0
    BY <1>1, <1>2, <2>1
  <2>2. CASE Len(jobs) = 0
    <3>1. Len(t) # 0 => jobs'[1] = t[1]
      BY <1>1, <1>2, <2>2
    <3> QED
      BY <1>1, <1>2, <1>3, <2>2, <3>1
  <2> QED
    BY <2>1, <2>2
<1> QED
  BY <1>2, <1>4, <1>5 DEF Chain

(* The head going to its next stage leaves the rest of the chain.          *)
LEMMA HeadGoes ==
  ASSUME Chain, jobs # <<>>, NEW j \in Jobs, j.at # "queued", jobs' = [jobs EXCEPT ![1] = j], open' # L!Closed
  PROVE  Chain'
<1>1. jobs \in Seq(Jobs) /\ Len(jobs) \in Nat /\ 1 \in 1 .. Len(jobs)
  BY EmptySeq DEF Chain
<1>2. /\ jobs' \in Seq(Jobs) /\ Len(jobs') = Len(jobs)
      /\ \A i \in 1 .. Len(jobs) : jobs'[i] = IF i = 1 THEN j ELSE jobs[i]
  BY <1>1, ExceptSeq
<1> QED
  BY <1>1, <1>2 DEF Chain

(* When the head ends, the chain is the rest of it, all queued.            *)
LEMMA HeadEnds ==
  ASSUME Chain, jobs # <<>>, jobs' = Tail(jobs), open' = L!Closed
  PROVE  Chain'
<1>1. /\ jobs \in Seq(Jobs) /\ Len(jobs) \in Nat
      /\ jobs' \in Seq(Jobs) /\ Len(jobs') = Len(jobs) - 1 /\ Len(jobs') \in Nat
      /\ \A i \in 1 .. Len(jobs') : jobs'[i] = jobs[i + 1]
  BY HeadTailProperties DEF Chain
<1>2. \A i \in 1 .. Len(jobs') : jobs'[i].at = "queued"
  <2> SUFFICES ASSUME NEW i \in 1 .. Len(jobs') PROVE jobs'[i].at = "queued"
    OBVIOUS
  <2>1. i + 1 \in 2 .. Len(jobs)
    BY <1>1
  <2> QED
    BY <1>1, <2>1 DEF Chain
<1> QED
  BY <1>1, <1>2 DEF Chain
-----------------------------------------------------------------------------
(* Lives: what is in the store.                                            *)

Heard ==
  /\ present \in [LifeRooms -> SUBSET People] /\ heard \in [LifeRooms -> Seq(SUBSET People)]
  /\ marker \in [LifeRooms -> Nat] /\ \A r \in LifeRooms : marker[r] <= Len(heard[r])

(* What was appended is at or before the marker, and what is in the trunk  *)
(* was said among those who consent.                                       *)
EntrySound(e) ==
  /\ e.room \in LifeRooms /\ e.n \in 1 .. marker[e.room]
  /\ "crossed" \notin ghosts /\ e.key = L!Trunk /\ e.room \notin PublicRooms =>
       heard[e.room][e.n] \subseteq Consenting
Has(s) == \A r \in LifeRooms : \A n \in 1 .. marker[r] : \E e \in s : e.room = r /\ e.n = n

Store ==
  /\ \A e \in store : EntrySound(e)
  /\ open # L!Closed => \A e \in open : EntrySound(e)
  /\ "twice" \notin ghosts
  /\ "killed" \notin ghosts => Has(L!Stored)
LivesKept == Heard /\ Chain /\ Store

(* A store is never taken for a closed one.                                *)
LEMMA NotClosed ==
  ASSUME NEW s, \A e \in s : e.room \in LifeRooms
  PROVE  s # L!Closed
<1>1. L!Entry("none", 0, L!Trunk) \in L!Closed /\ L!Entry("none", 0, L!Trunk).room = "none"
  BY DEF L!Closed, L!Entry
<1> QED
  BY <1>1, PartsAssumption

(* What was appended stays right as the room goes on.                      *)
LEMMA EntryStays ==
  ASSUME Heard, NEW e, EntrySound(e),
         e.room \in LifeRooms => marker'[e.room] \in Nat /\ marker[e.room] <= marker'[e.room],
         e.room \in LifeRooms => \A n \in 1 .. Len(heard[e.room]) : heard'[e.room][n] = heard[e.room][n],
         "crossed" \in ghosts => "crossed" \in ghosts'
  PROVE  EntrySound(e)'
<1>1. /\ e.room \in LifeRooms /\ marker[e.room] \in Nat /\ marker[e.room] <= Len(heard[e.room])
      /\ Len(heard[e.room]) \in Nat /\ e.n \in 1 .. marker[e.room]
  BY DEF Heard, EntrySound
<1>2. e.n \in 1 .. marker'[e.room] /\ e.n \in 1 .. Len(heard[e.room])
  BY <1>1
<1>3. heard'[e.room][e.n] = heard[e.room][e.n]
  BY <1>1, <1>2
<1> QED
  BY <1>1, <1>2, <1>3 DEF EntrySound

(* Steps that touch neither the rooms' words nor the store.                *)
LEMMA StoreStays ==
  ASSUME Heard, Store, UNCHANGED <<present, heard, marker, store, open, ghosts>>
  PROVE  Heard' /\ Store'
<1>1. Heard'
  BY DEF Heard
<1>2. Store'
  BY DEF Store, EntrySound, Has, L!Stored
<1> QED
  BY <1>1, <1>2

(* The head of the chain, where it has the store open.                     *)
LEMMA HeadRuns ==
  ASSUME LivesKept, NEW at, L!Running(at), at # "queued"
  PROVE  /\ jobs # <<>> /\ open # L!Closed /\ jobs[1] \in Jobs /\ jobs[1].at = at
         /\ L!Stored = open /\ \A e \in open : EntrySound(e)
<1>1. jobs # <<>> /\ jobs[1].at = at
  BY DEF L!Running
<1>2. jobs \in Seq(Jobs)
  BY DEF LivesKept, Chain
<1>3. Len(jobs) \in Nat \ {0}
  BY <1>1, <1>2, EmptySeq
<1>4. jobs[1] \in Jobs
  BY <1>2, <1>3, ElementOfSeq
<1>5. open # L!Closed
  BY <1>1, <1>3 DEF LivesKept, Chain
<1> QED
  BY <1>1, <1>4, <1>5 DEF LivesKept, Store, L!Stored
-----------------------------------------------------------------------------
(* Lives: the steps.                                                       *)

(* Somebody speaks: the room's words grow at their end.                    *)
LEMMA SayingKeeps ==
  ASSUME LivesKept, NEW r \in LifeRooms, NEW p, p \subseteq People, L!Says(r, p)
  PROVE  LivesKept'
<1>1. /\ present' = [present EXCEPT ![r] = @ \cup p]
      /\ heard' = [heard EXCEPT ![r] = Append(@, present'[r])]
      /\ UNCHANGED <<marker, store, jobs, open, ghosts>>
  BY DEF L!Says
<1>2. present' \in [LifeRooms -> SUBSET People] /\ heard[r] \in Seq(SUBSET People)
  BY <1>1 DEF LivesKept, Heard
<1> DEFINE new == Append(heard[r], present'[r])
<1>3. /\ new \in Seq(SUBSET People) /\ Len(new) = Len(heard[r]) + 1 /\ Len(heard[r]) \in Nat
      /\ \A n \in 1 .. Len(heard[r]) : new[n] = heard[r][n]
  BY <1>2, AppendProperties, LenProperties
<1>4. heard' = [heard EXCEPT ![r] = new] /\ heard \in [LifeRooms -> Seq(SUBSET People)]
  BY <1>1 DEF LivesKept, Heard
<1> HIDE DEF new
<1>5. /\ heard' \in [LifeRooms -> Seq(SUBSET People)]
      /\ \A x \in LifeRooms : heard'[x] = IF x = r THEN new ELSE heard[x]
  BY <1>3, <1>4
<1>6. Heard'
  <2>1. marker \in [LifeRooms -> Nat] /\ \A x \in LifeRooms : marker[x] <= Len(heard[x])
    BY DEF LivesKept, Heard
  <2>2. \A x \in LifeRooms : marker[x] <= Len(heard'[x])
    <3> SUFFICES ASSUME NEW x \in LifeRooms PROVE marker[x] <= Len(heard'[x])
      OBVIOUS
    <3>1. marker[x] \in Nat /\ marker[x] <= Len(heard[x])
      BY <2>1
    <3>2. CASE x = r
      <4>1. Len(heard'[x]) = Len(heard[x]) + 1 /\ Len(heard[x]) \in Nat
        BY <1>3, <1>5, <3>2
      <4> QED
        BY <3>1, <4>1
    <3>3. CASE x # r
      BY <1>5, <3>1, <3>3
    <3> QED
      BY <3>2, <3>3
  <2> QED
    BY <1>1, <1>2, <1>5, <2>1, <2>2 DEF Heard
<1>7. ASSUME NEW e, EntrySound(e) PROVE EntrySound(e)'
  <2>1. e.room \in LifeRooms => \A n \in 1 .. Len(heard[e.room]) : heard'[e.room][n] = heard[e.room][n]
    BY <1>3, <1>5
  <2>2. e.room \in LifeRooms => marker'[e.room] \in Nat /\ marker[e.room] <= marker'[e.room]
    BY <1>1 DEF LivesKept, Heard
  <2> QED
    BY <1>1, <1>7, <2>1, <2>2, EntryStays DEF LivesKept
<1>8. Store'
  <2>1. \A e \in store' : EntrySound(e)'
    BY <1>1, <1>7 DEF LivesKept, Store
  <2>2. open' # L!Closed => \A e \in open' : EntrySound(e)'
    BY <1>1, <1>7 DEF LivesKept, Store
  <2>3. "twice" \notin ghosts' /\ ("killed" \notin ghosts' => Has(L!Stored)')
    BY <1>1 DEF LivesKept, Store, Has, L!Stored
  <2> QED
    BY <2>1, <2>2, <2>3 DEF Store
<1>9. Chain'
  BY <1>1 DEF LivesKept, Chain
<1> QED
  BY <1>6, <1>8, <1>9 DEF LivesKept

(* Jobs are queued, by whatever calls for one.                             *)
LEMMA QueueingKeeps ==
  ASSUME LivesKept,
         \/ \E r \in LifeRooms, why \in {"ensure", "catchUp"} : L!Enqueues(r, why)
         \/ L!Drains \/ L!Refresh
  PROVE  LivesKept'
<1>1. UNCHANGED <<present, heard, marker, store, open, ghosts>>
  BY DEF L!Enqueues, L!Drains, L!Refresh
<1>2. jobs \in Seq(Jobs)
  BY DEF LivesKept, Chain
<1>3. ASSUME NEW why \in Whys \ {"drain"}, NEW R, R \subseteq LifeRooms
      PROVE  L!SetToSeq({L!Job(r, why) : r \in R}) \in Seq(Queues)
  <2> DEFINE S == {L!Job(r, why) : r \in R}
  <2>1. IsFiniteSet(R)
    BY <1>3, PartsAssumption, FS_Subset
  <2>2. IsFiniteSet(S)
    <3> DEFINE f == [r \in R |-> L!Job(r, why)]
    <3>1. f \in Surjection(R, S)
      BY DEF Surjection
    <3> HIDE DEF f, S
    <3> QED
      BY <2>1, <3>1, FS_Surjection
  <2>3. S \subseteq Queues
    BY <1>3, JobQueues
  <2> HIDE DEF S
  <2>4. L!SetToSeq(S) \in Seq(S)
    BY <2>2, SetToSeqTyped
  <2>5. L!SetToSeq(S) \in Seq(Queues)
    BY <2>3, <2>4, SeqMonotonic
  <2> QED
    BY <2>5 DEF S
<1>4. \E t \in Seq(Queues) : jobs' = jobs \o t
  <2>1. ASSUME NEW j \in Queues PROVE <<j>> \in Seq(Queues) /\ Append(jobs, j) = jobs \o <<j>>
    <3>1. j \in Jobs
      BY DEF Queues
    <3> QED
      BY <1>2, <3>1, AppendIsConcat
  <2>2. ASSUME NEW r \in LifeRooms, NEW why \in {"ensure", "catchUp"}, L!Enqueues(r, why)
        PROVE  \E t \in Seq(Queues) : jobs' = jobs \o t
    <3>1. L!Job(r, why) \in Queues /\ jobs' = Append(jobs, L!Job(r, why))
      BY <2>2, JobQueues DEF L!Enqueues, Whys
    <3> QED
      BY <2>1, <3>1
  <2>3. CASE L!Refresh
    <3>1. PICK R \in SUBSET LifeRooms : jobs' = jobs \o L!SetToSeq({L!Job(r, "refresh") : r \in R})
      BY <2>3 DEF L!Refresh
    <3> QED
      BY <1>3, <3>1 DEF Whys
  <2>4. CASE L!Drains
    <3> DEFINE j == L!Job(L!Nowhere, "drain")
               R == {x \in LifeRooms : life[x].note}
               t == L!SetToSeq({L!Job(r, "noted") : r \in R})
    <3>1. jobs' = Append(jobs, j) \o t
      BY <2>4 DEF L!Drains
    <3>2. j \in Queues
      BY DrainQueues
    <3>3. t \in Seq(Queues)
      BY <1>3 DEF Whys
    <3> HIDE DEF j, t
    <3>4. <<j>> \in Seq(Queues) /\ Append(jobs, j) = jobs \o <<j>>
      BY <2>1, <3>2
    <3>5. Queues \subseteq Jobs
      BY DEF Queues
    <3>6. <<j>> \in Seq(Jobs) /\ t \in Seq(Jobs)
      BY <3>3, <3>4, <3>5, SeqMonotonic
    <3>7. jobs' = jobs \o (<<j>> \o t)
      BY <1>2, <3>1, <3>4, <3>6, ConcatAssociative
    <3>8. <<j>> \o t \in Seq(Queues)
      BY <3>3, <3>4, ConcatProperties
    <3> QED
      BY <3>7, <3>8
  <2> QED
    BY <2>2, <2>3, <2>4
<1>5. Chain'
  BY <1>1, <1>4, QueueGrows DEF LivesKept
<1> QED
  BY <1>1, <1>5, StoreStays DEF LivesKept
(* A job opens the store.                                                  *)
LEMMA OpeningTheStore ==
  ASSUME LivesKept, L!Opens
  PROVE  LivesKept'
<1>1. /\ jobs # <<>> /\ jobs[1].at = "queued" /\ open' = store
      /\ UNCHANGED <<present, heard, marker, store, ghosts>>
  BY DEF L!Opens, L!Running, L!House
<1>2. jobs \in Seq(Jobs) /\ Len(jobs) \in Nat \ {0}
  BY <1>1, EmptySeq DEF LivesKept, Chain
<1>3. jobs[1] \in Jobs
  BY <1>2, ElementOfSeq
<1>4. open = L!Closed /\ open' # L!Closed
  <2>1. open = L!Closed
    BY <1>1, <1>2 DEF LivesKept, Chain
  <2>2. \A e \in store : e.room \in LifeRooms
    BY DEF LivesKept, Store, EntrySound
  <2> QED
    BY <1>1, <2>1, <2>2, NotClosed
<1> DEFINE at == IF jobs[1].why \in L!Appending THEN "append"
                 ELSE IF jobs[1].why = "drain" THEN "close" ELSE "compile"
           others == IF jobs[1].why \in L!Appending THEN present[jobs[1].room] ELSE {}
           j == [jobs[1] EXCEPT !.at = at, !.others = others]
<1>5. jobs' = [jobs EXCEPT ![1] = j]
  BY DEF L!Opens
<1>6. others \in SUBSET People
  <2>1. jobs[1].why \in L!Appending => jobs[1].room \in LifeRooms
    BY <1>3 DEF Jobs, L!Appending
  <2> QED
    BY <2>1 DEF LivesKept, Heard
<1>7. j \in Jobs /\ j.at # "queued"
  <2>1. /\ at \in Stages \ {"queued"} /\ (at = "append" => jobs[1].why \in L!Appending)
        /\ (at = "compile" => jobs[1].why # "drain") /\ at # "compiling"
    BY DEF Stages
  <2> HIDE DEF at, others
  <2> QED
    BY <1>3, <1>6, <2>1 DEF Jobs
<1> HIDE DEF j
<1>8. Chain'
  BY <1>1, <1>4, <1>5, <1>7, HeadGoes DEF LivesKept
<1>9. Store'
  BY <1>1, <1>4 DEF LivesKept, Store, EntrySound, Has, L!Stored
<1>10. Heard'
  BY <1>1 DEF LivesKept, Heard
<1> QED
  BY <1>8, <1>9, <1>10 DEF LivesKept

(* The head goes on to another stage, with the store it has open.          *)
LEMMA StageKeeps ==
  ASSUME LivesKept, jobs # <<>>, open # L!Closed, NEW j \in Jobs, j.at # "queued",
         jobs' = [jobs EXCEPT ![1] = j], UNCHANGED <<present, heard, marker, store, open, ghosts>>
  PROVE  LivesKept'
<1>1. Chain'
  BY HeadGoes DEF LivesKept
<1> QED
  BY <1>1, StoreStays DEF LivesKept

(* A file is compiled, or needs no compile.                                *)
LEMMA CompilingKeeps ==
  ASSUME LivesKept, L!Skips \/ L!Reads \/ \E note \in BOOLEAN : L!Writes(note)
  PROVE  LivesKept'
<1>1. UNCHANGED <<present, heard, marker, store, open, ghosts>>
  BY DEF L!Skips, L!Reads, L!Writes, L!House
<1>2. /\ jobs # <<>> /\ open # L!Closed /\ jobs[1] \in Jobs
      /\ jobs[1].at \in {"compile", "compiling"}
  <2>1. L!Running("compile") \/ L!Running("compiling")
    BY DEF L!Skips, L!Reads, L!Writes
  <2> QED
    BY <2>1, HeadRuns
<1>3. jobs[1].why # "drain" /\ jobs[1].room \in LifeRooms
  BY <1>2 DEF Jobs
<1>4. present[jobs[1].room] \in SUBSET People
  BY <1>3 DEF LivesKept, Heard
<1>5. \A x \in Jobs : x.why # "drain" =>
        /\ [x EXCEPT !.at = "close", !.others = {}] \in Jobs
        /\ \A who \in SUBSET People : [x EXCEPT !.at = "compiling", !.others = who] \in Jobs
        /\ [x EXCEPT !.at = "compile", !.again = TRUE, !.noop = FALSE] \in Jobs
  BY DEF Jobs, Stages
<1>6. \/ jobs' = [jobs EXCEPT ![1] = [jobs[1] EXCEPT !.at = "close", !.others = {}]]
      \/ jobs' = [jobs EXCEPT ![1] = [jobs[1] EXCEPT !.at = "compiling", !.others = present[jobs[1].room]]]
      \/ jobs' = [jobs EXCEPT ![1] = [jobs[1] EXCEPT !.at = "compile", !.again = TRUE, !.noop = FALSE]]
  BY DEF L!Skips, L!Reads, L!Writes, L!Goes
<1>7. \E j \in Jobs : j.at # "queued" /\ jobs' = [jobs EXCEPT ![1] = j]
  <2> DEFINE a == [jobs[1] EXCEPT !.at = "close", !.others = {}]
             b == [jobs[1] EXCEPT !.at = "compiling", !.others = present[jobs[1].room]]
             c == [jobs[1] EXCEPT !.at = "compile", !.again = TRUE, !.noop = FALSE]
  <2>1. a \in Jobs /\ b \in Jobs /\ c \in Jobs
    BY <1>2, <1>3, <1>4, <1>5
  <2>2. a.at # "queued" /\ b.at # "queued" /\ c.at # "queued"
    BY <1>2 DEF Jobs
  <2>3. jobs' = [jobs EXCEPT ![1] = a] \/ jobs' = [jobs EXCEPT ![1] = b] \/ jobs' = [jobs EXCEPT ![1] = c]
    BY <1>6
  <2> HIDE DEF a, b, c
  <2> QED
    BY <2>1, <2>2, <2>3
<1> QED
  BY <1>1, <1>2, <1>7, StageKeeps

(* What is new in the room is appended once: all past the marker.          *)
LEMMA AppendingKeeps ==
  ASSUME LivesKept, L!Appends
  PROVE  LivesKept'
<1> DEFINE r == jobs[1].room
           new == {n \in 1 .. Len(heard[r]) : n > marker[r]}
           others == jobs[1].others
           put == {L!Entry(r, n, L!Route(r, others)) : n \in new}
           twice == {"twice" : e \in {x \in open : x.room = r /\ x.n \in new}}
           crossed == {"crossed" : n \in {x \in new : ~(heard[r][x] \subseteq others)}}
<1>1. /\ open' = open \cup put
      /\ marker' = IF new = {} THEN marker ELSE L!Marked(r)
      /\ ghosts' = (ghosts \cup twice) \cup crossed
      /\ UNCHANGED <<present, heard, store>>
  BY DEF L!Appends, L!House
<1>2. /\ jobs # <<>> /\ open # L!Closed /\ jobs[1] \in Jobs /\ jobs[1].at = "append"
      /\ L!Stored = open /\ \A e \in open : EntrySound(e)
  BY HeadRuns DEF L!Appends
<1>3. r \in LifeRooms /\ jobs[1].why # "drain"
  BY <1>2 DEF Jobs, L!Appending
<1>4. /\ marker[r] \in Nat /\ Len(heard[r]) \in Nat /\ marker[r] <= Len(heard[r])
      /\ marker \in [LifeRooms -> Nat] /\ \A x \in LifeRooms : marker[x] <= Len(heard[x])
  BY <1>3, LenProperties DEF LivesKept, Heard
<1>5. /\ marker' \in [LifeRooms -> Nat] /\ marker'[r] = Len(heard[r])
      /\ \A x \in LifeRooms : x # r => marker'[x] = marker[x]
  <2>1. CASE new = {}
    <3>1. marker[r] = Len(heard[r])
      <4>1. ASSUME marker[r] < Len(heard[r]) PROVE FALSE
        <5>1. Len(heard[r]) \in 1 .. Len(heard[r])
          BY <1>4, <4>1
        <5>2. Len(heard[r]) \in new
          BY <1>4, <4>1, <5>1
        <5> QED
          BY <2>1, <5>2
      <4> HIDE DEF r, new
      <4> QED
        BY <1>4, <4>1
    <3> QED
      BY <1>1, <1>4, <2>1, <3>1
  <2>2. CASE new # {}
    <3>1. marker' = [marker EXCEPT ![r] = Len(heard[r])]
      BY <1>1, <2>2 DEF L!Marked
    <3> HIDE DEF r
    <3> QED
      BY <1>3, <1>4, <3>1
  <2> QED
    BY <2>1, <2>2
<1>6. Heard'
  <2>1. \A x \in LifeRooms : marker'[x] <= Len(heard[x])
    BY <1>3, <1>4, <1>5
  <2> QED
    BY <1>1, <1>5, <2>1 DEF LivesKept, Heard
<1>7. twice = {}
  <2>1. ASSUME NEW e \in open, e.room = r PROVE e.n \notin new
    BY <1>2, <1>4, <2>1 DEF EntrySound
  <2> QED
    BY <2>1
<1>8. ASSUME NEW e, EntrySound(e) PROVE EntrySound(e)'
  <2>1. e.room \in LifeRooms => marker'[e.room] \in Nat /\ marker[e.room] <= marker'[e.room]
    BY <1>4, <1>5
  <2>2. "crossed" \in ghosts => "crossed" \in ghosts'
    BY <1>1
  <2> QED
    BY <1>1, <1>8, <2>1, <2>2, EntryStays DEF LivesKept
<1>9. ASSUME NEW e \in put PROVE EntrySound(e)'
  <2>1. PICK n \in new : e = L!Entry(r, n, L!Route(r, others))
    OBVIOUS
  <2>2. e.room = r /\ e.n = n /\ e.key = L!Route(r, others)
    BY <2>1 DEF L!Entry
  <2>3. e.n \in 1 .. marker'[e.room]
    BY <1>4, <1>5, <2>2
  <2>4. ASSUME "crossed" \notin ghosts', e.key = L!Trunk, r \notin PublicRooms
        PROVE  heard[r][n] \subseteq Consenting
    <3>1. crossed = {}
      BY <1>1, <2>4
    <3>2. heard[r][n] \subseteq others
      BY <3>1
    <3>3. others \subseteq Consenting
      BY <2>2, <2>4 DEF L!Route, L!Trunk
    <3> QED
      BY <3>2, <3>3
  <2> HIDE DEF r
  <2> QED
    BY <1>1, <1>3, <2>2, <2>3, <2>4 DEF EntrySound
<1>10. \A e \in open' : EntrySound(e)'
  <2> HIDE DEF put
  <2> QED
    BY <1>1, <1>2, <1>8, <1>9
<1>11. open' # L!Closed
  <2>1. \A e \in open' : e.room \in LifeRooms
    BY <1>10 DEF EntrySound
  <2> QED
    BY <2>1, NotClosed
<1>12. Store'
  <2>1. \A e \in store' : EntrySound(e)'
    BY <1>1, <1>8 DEF LivesKept, Store
  <2>2. "twice" \notin ghosts'
    BY <1>1, <1>7 DEF LivesKept, Store
  <2>3. ASSUME "killed" \notin ghosts' PROVE Has(open)'
    <3> SUFFICES ASSUME NEW x \in LifeRooms, NEW n \in 1 .. marker'[x]
                 PROVE  \E e \in open' : e.room = x /\ e.n = n
      BY DEF Has
    <3>1. CASE n \in 1 .. marker[x]
      <4>1. Has(open)
        BY <1>1, <1>2, <2>3 DEF LivesKept, Store
      <4> QED
        BY <1>1, <3>1, <4>1 DEF Has
    <3>2. CASE n \notin 1 .. marker[x]
      <4>1. x = r /\ n \in new
        BY <1>3, <1>4, <1>5, <3>2
      <4> DEFINE e == L!Entry(r, n, L!Route(r, others))
      <4>2. e \in put /\ e.room = x /\ e.n = n
        BY <4>1 DEF L!Entry
      <4> HIDE DEF e, put
      <4> QED
        BY <1>1, <4>2
    <3> QED
      BY <3>1, <3>2
  <2> QED
    BY <1>10, <1>11, <2>1, <2>2, <2>3 DEF Store, L!Stored
<1>13. Chain'
  <2> DEFINE done == (new = {})
             j == [jobs[1] EXCEPT !.at = "compile", !.noop = done, !.others = {}]
  <2>1. jobs' = [jobs EXCEPT ![1] = j]
    BY DEF L!Appends
  <2>2. done \in BOOLEAN
    OBVIOUS
  <2>3. j \in Jobs /\ j.at # "queued"
    <3> HIDE DEF done
    <3> QED
      BY <1>2, <1>3, <2>2 DEF Jobs, Stages
  <2> HIDE DEF j
  <2> QED
    BY <1>2, <1>11, <2>1, <2>3, HeadGoes DEF LivesKept
<1> QED
  BY <1>6, <1>12, <1>13 DEF LivesKept
(* A job closes the store, which is then on disk, whether it ended well    *)
(* or not; or it is killed, and what it appended is gone.                  *)
LEMMA ClosingKeeps ==
  ASSUME LivesKept, L!Ends \/ L!Fails
  PROVE  LivesKept'
<1>1. /\ store' = open /\ open' = L!Closed /\ jobs' = Tail(jobs)
      /\ UNCHANGED <<present, heard, marker, ghosts>>
  BY DEF L!Ends, L!Fails, L!Closes, L!House
<1>2. open # L!Closed
  <2>1. CASE L!Ends
    BY <2>1, HeadRuns DEF L!Ends
  <2>2. CASE L!Fails
    BY <2>2 DEF L!Fails
  <2> QED
    BY <2>1, <2>2
<1>3. jobs # <<>>
  BY <1>2, EmptySeq DEF LivesKept, Chain
<1>4. Chain'
  BY <1>1, <1>3, HeadEnds DEF LivesKept
<1>5. Store'
  BY <1>1, <1>2 DEF LivesKept, Store, EntrySound, Has, L!Stored
<1>6. Heard'
  BY <1>1 DEF LivesKept, Heard
<1> QED
  BY <1>4, <1>5, <1>6 DEF LivesKept

(* A kill closes the mind and ends the job it was at.                      *)
LEMMA KillingKeeps ==
  ASSUME LivesKept, L!Killed
  PROVE  LivesKept'
<1>1. /\ open # L!Closed /\ open' = L!Closed /\ jobs' = Tail(jobs) /\ ghosts' = ghosts \cup {"killed"}
      /\ UNCHANGED <<present, heard, marker, store>>
  BY DEF L!Killed, L!House
<1>2. jobs # <<>>
  BY <1>1, EmptySeq DEF LivesKept, Chain
<1>3. Chain'
  BY <1>1, <1>2, HeadEnds DEF LivesKept
<1>4. Store'
  BY <1>1 DEF LivesKept, Store, EntrySound
<1>5. Heard'
  BY <1>1 DEF LivesKept, Heard
<1> QED
  BY <1>3, <1>4, <1>5 DEF LivesKept

(* The house stops, refuses what is queued, and comes back with an empty   *)
(* chain.                                                                  *)
LEMMA StoppingKeeps ==
  ASSUME LivesKept, L!Stops \/ L!Refused \/ L!Restart
  PROVE  LivesKept'
<1>1. CASE L!Stops
  <2>1. UNCHANGED <<present, heard, marker, store, jobs, open, ghosts>>
    BY <1>1 DEF L!Stops
  <2>2. Chain'
    BY <2>1 DEF LivesKept, Chain
  <2> QED
    BY <2>1, <2>2, StoreStays DEF LivesKept
<1>2. CASE L!Refused
  <2>1. /\ jobs # <<>> /\ jobs[1].at = "queued" /\ jobs' = Tail(jobs)
        /\ UNCHANGED <<present, heard, marker, store, open, ghosts>>
    BY <1>2 DEF L!Refused, L!Running, L!House
  <2>2. open' = L!Closed
    BY <2>1 DEF LivesKept, Chain
  <2>3. Chain'
    BY <2>1, <2>2, HeadEnds DEF LivesKept
  <2> QED
    BY <2>1, <2>3, StoreStays DEF LivesKept
<1>3. CASE L!Restart
  <2>1. /\ jobs' = <<>> /\ open' = L!Closed
        /\ ghosts' = IF open = L!Closed THEN ghosts ELSE ghosts \cup {"killed"}
        /\ UNCHANGED <<present, heard, marker, store>>
    BY <1>3 DEF L!Restart
  <2>2. Chain'
    BY <2>1, EmptySeq DEF Chain
  <2>3. Store'
    <3>1. CASE open = L!Closed
      BY <2>1, <3>1 DEF LivesKept, Store, EntrySound, Has, L!Stored
    <3>2. CASE open # L!Closed
      BY <2>1, <3>2 DEF LivesKept, Store, EntrySound
    <3> QED
      BY <3>1, <3>2
  <2>4. Heard'
    BY <2>1 DEF LivesKept, Heard
  <2> QED
    BY <2>2, <2>3, <2>4 DEF LivesKept
<1> QED
  BY <1>1, <1>2, <1>3

(* Nothing a being lived is appended to its life twice, nothing the marker *)
(* says was appended is missing from the store unless a job was killed,    *)
(* and what was said in a private room is in the trunk only if all who     *)
(* were there consent, unless someone joined and spoke between a job's two *)
(* reads (life-jobs.mjs, life-job.mjs, resident-life.mjs): for any finite  *)
(* set of rooms, any people and any number of frames, jobs and lapses.     *)
THEOREM LifeIsKept ==
  Spec => []LivesSound
<1>1. Init => LivesKept
  <2> SUFFICES ASSUME Init PROVE LivesKept
    OBVIOUS
  <2>1. /\ present = [r \in LifeRooms |-> {}] /\ heard = [r \in LifeRooms |-> <<>>]
        /\ marker = [r \in LifeRooms |-> 0] /\ store = {} /\ jobs = <<>> /\ open = L!Closed /\ ghosts = {}
    BY DEF Init, L!Init
  <2>2. Heard
    BY <2>1, EmptySeq DEF Heard
  <2>3. Chain
    BY <2>1, EmptySeq DEF Chain
  <2>4. Store
    BY <2>1 DEF Store, Has
  <2> QED
    BY <2>2, <2>3, <2>4 DEF LivesKept
<1>2. LivesKept /\ [Next]_vars => LivesKept'
  <2> SUFFICES ASSUME LivesKept, [Next]_vars PROVE LivesKept'
    OBVIOUS
  <2>1. L!Next \/ UNCHANGED livesVars
    BY DEF Next, vars
  <2>2. CASE UNCHANGED livesVars
    <3>1. UNCHANGED <<present, heard, marker, store, jobs, open, ghosts>>
      BY <2>2 DEF livesVars
    <3>2. Chain'
      BY <3>1 DEF LivesKept, Chain
    <3> QED
      BY <3>1, <3>2, StoreStays DEF LivesKept
  <2>3. ASSUME NEW r \in LifeRooms, NEW p \in {{}} \cup {{x} : x \in People \ present[r]}, L!Says(r, p)
        PROVE  LivesKept'
    BY <2>3, SayingKeeps
  <2>4. CASE L!Step
    BY <2>4, OpeningTheStore, AppendingKeeps, CompilingKeeps, ClosingKeeps, StoppingKeeps DEF L!Step
  <2>5. CASE L!Next
    BY <2>3, <2>4, <2>5, QueueingKeeps, ClosingKeeps, KillingKeeps, StoppingKeeps DEF L!Next
  <2> QED
    BY <2>1, <2>2, <2>5
<1>3. LivesKept => LivesSound
  <2> SUFFICES ASSUME LivesKept PROVE LivesSound
    OBVIOUS
  <2>1. \A e \in L!Stored : EntrySound(e)
    BY DEF LivesKept, Store, L!Stored
  <2>2. "killed" \notin ghosts =>
          \A r \in LifeRooms : \A n \in 1 .. marker[r] : \E e \in L!Stored : e.room = r /\ e.n = n
    BY DEF LivesKept, Store, Has
  <2> QED
    BY <2>1, <2>2 DEF LivesKept, Store, EntrySound, LivesSound, L!Sound
<1> QED
  BY <1>1, <1>2, <1>3, PTL DEF Spec
==============================================================================
