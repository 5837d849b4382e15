-------------------------------- MODULE Links --------------------------------
(***************************************************************************)
(* Who a platform account is (identity-map), the marks and limits of an AI *)
(* account, and the codes by which the owner of an account of the house's  *)
(* app proves that a platform account is theirs (link-codes, mcpl/link).   *)
(* Map and codes are two files, each read and written whole.  The seats    *)
(* are one process; the app is another, and reads a file some time before  *)
(* it writes it.  Every account is on one platform; the gate is on, so     *)
(* that `link <code>` in a direct message is intercepted.                  *)
(***************************************************************************)
EXTENDS Naturals, Sequences, SequencesExt

CONSTANTS
  Accounts,     \* accounts of the platform; each is its own pseudonym too
  Owners,       \* handles of the app's users
  Rooted,       \* those of them with a private root, which the house knows
  Attempts,     \* attempts a sender has within a window
  LimitMax,     \* bound: limits tried, 0 upwards
  MaxCodes,     \* bound: codes minted
  MaxChanges    \* bound: changes of the map, and ends of the house

VARIABLES
  map,          \* identity-map.json, in the order of first sight
  codes,        \* link-codes.json: the n-th minted
  draft,        \* what the app has read and not written yet
  tried,        \* the limiter's attempts, in memory
  changes,      \* changes so far
  redeemed,     \* by whom the n-th code was, each time
  expired,      \* the codes whose ten minutes are over
  left, away,   \* the owner's codes when last revoked, when last disconnected
  cap, sure,    \* the least limit set on, the keeper's word that human of, a handle
  ghosts        \* what went wrong so far; the handles whose marked entries were linked or renamed

linkVars == <<map, codes, draft, tried, changes, redeemed, expired, left, away, cap, sure, ghosts>>

NoLimit == LimitMax + 1
Handles == Owners \cup Accounts
NoDraft == [op |-> "none", of |-> "none", map |-> <<>>, codes |-> <<>>]
Entry(id, handle, linked) ==
  [id |-> id, handle |-> handle, linked |-> linked, kind |-> "none", limit |-> NoLimit]
Known(id) == \E i \in DOMAIN map : map[i].id = id
EntryOf(id) == map[CHOOSE i \in DOMAIN map : map[i].id = id]

Init ==
  /\ map = <<>> /\ codes = <<>> /\ draft = NoDraft /\ tried = [a \in Accounts |-> 0] /\ changes = 0
  /\ redeemed = <<>> /\ expired = {}
  /\ left = [o \in Owners |-> {}] /\ away = [o \in Owners |-> {}]
  /\ cap = [h \in Handles |-> NoLimit] /\ sure = {} /\ ghosts = {}

Changes == changes < MaxChanges /\ changes' = changes + 1
CodeState == <<codes, redeemed, expired, left, away>>

-----------------------------------------------------------------------------
(* identityFor: an account not seen yet gets its pseudonym.                *)
Sees(id) ==
  /\ ~Known(id) /\ map' = Append(map, Entry(id, id, FALSE))
  /\ UNCHANGED <<CodeState, draft, tried, changes, cap, sure, ghosts>>

(* kindFields: what a handle carries over its entries; "ai" wins.          *)
Marked(h) == {i \in DOMAIN map : map[i].handle = h /\ map[i].kind = "ai"}
KindOf(h) ==
  IF Marked(h) # {} THEN "ai"
  ELSE IF \E i \in DOMAIN map : map[i].handle = h /\ map[i].kind = "human" THEN "human" ELSE "none"
LimitOf(h) == IF Marked(h) = {} THEN NoLimit ELSE map[Min(Marked(h))].limit
Named(h) == \E i \in DOMAIN map : map[i].handle = h

(* writeKind: every entry that names the handle.                           *)
Kinded(h, kind, limit) ==
  [i \in DOMAIN map |-> IF map[i].handle = h THEN [map[i] EXCEPT !.kind = kind, !.limit = limit] ELSE map[i]]

(* markAI and setAILimit; a mark that leaves the limit alone asks for the  *)
(* one there is.  Only a keeper raises or removes a limit, or goes against *)
(* a keeper's "human"; what the handle has already is not written.         *)
MayMark(h, limit, keeper) ==
  /\ KindOf(h) = "ai" => limit # LimitOf(h)
  /\ keeper \/ (KindOf(h) # "human" /\ limit <= LimitOf(h))
Marks(h, limit, keeper) ==
  /\ Changes /\ Named(h) /\ MayMark(h, limit, keeper)
  /\ map' = Kinded(h, "ai", limit)
  /\ cap' = [cap EXCEPT ![h] = IF keeper \/ limit < @ THEN limit ELSE @]
  /\ sure' = IF keeper THEN sure \ {h} ELSE sure
  /\ UNCHANGED <<CodeState, draft, tried, ghosts>>

(* clearAI, by a keeper.                                                   *)
Clears(h) ==
  /\ Changes /\ Named(h) /\ map' = Kinded(h, "human", NoLimit)
  /\ cap' = [cap EXCEPT ![h] = NoLimit] /\ sure' = sure \cup {h}
  /\ UNCHANGED <<CodeState, draft, tried, ghosts>>

(* rechristen, by a keeper or as a seat learns its own account's id: the   *)
(* marks go along.                                                         *)
Rechristens(old, new) ==
  /\ Changes /\ old # new /\ Named(old)
  /\ map' = [i \in DOMAIN map |-> IF map[i].handle = old THEN [map[i] EXCEPT !.handle = new] ELSE map[i]]
  /\ ghosts' = ghosts \cup {old, new}
  /\ UNCHANGED <<CodeState, draft, tried, cap, sure>>

(* linkIdentity: the entry is written anew, in its place.                  *)
LinkedMap(id, h) ==
  IF Known(id) THEN [i \in DOMAIN map |-> IF map[i].id = id THEN Entry(id, h, TRUE) ELSE map[i]]
  ELSE Append(map, Entry(id, h, TRUE))

-----------------------------------------------------------------------------
(* What the app does to the codes and to the map: mintLinkCode,            *)
(* revokeLinkCodes, unlinkIdentity.                                        *)
Code(h) == [of |-> h, state |-> "open"]
Minted(cs, h) == Append(cs, Code(h))
Revoked(cs, h) == [n \in DOMAIN cs |-> IF cs[n] = Code(h) THEN [cs[n] EXCEPT !.state = "used"] ELSE cs[n]]
Unlinked(m, h) == [i \in DOMAIN m |-> IF m[i].handle = h THEN [m[i] EXCEPT !.linked = FALSE] ELSE m[i]]

(* One call of the app at a time: it reads, and later writes.  To          *)
(* disconnect an account it revokes and then unlinks.                      *)
AppReads(op, h) ==
  /\ draft.op = "none" /\ Changes /\ (op = "mint" => Len(codes) < MaxCodes)
  /\ draft' = [op |-> op, of |-> h, map |-> map, codes |-> codes]
  /\ UNCHANGED <<map, CodeState, tried, cap, sure, ghosts>>
Crossing(old, now) == IF old = now THEN {} ELSE {"crossed"}
AppWrites ==
  LET h == draft.of IN
    /\ \/ /\ draft.op = "mint" /\ draft' = NoDraft
          /\ codes' = Minted(draft.codes, h) /\ redeemed' = Append(redeemed, <<>>)
          /\ ghosts' = ghosts \cup Crossing(draft.codes, codes)
          /\ UNCHANGED <<map, left, away>>
       \/ /\ draft.op \in {"revoke", "disconnect"}
          /\ draft' = IF draft.op = "revoke" THEN NoDraft ELSE [draft EXCEPT !.op = "unlink", !.map = map]
          /\ codes' = Revoked(draft.codes, h) /\ left' = [left EXCEPT ![h] = DOMAIN codes]
          /\ ghosts' = ghosts \cup Crossing(draft.codes, codes)
          /\ UNCHANGED <<map, redeemed, away>>
       \/ /\ draft.op = "unlink" /\ draft' = NoDraft
          /\ map' = Unlinked(draft.map, h) /\ away' = [away EXCEPT ![h] = left[h]]
          /\ ghosts' = ghosts \cup Crossing(draft.map, map)
          /\ UNCHANGED <<codes, redeemed, left>>
    /\ UNCHANGED <<tried, changes, expired, cap, sure>>

Expires(n) ==
  /\ n \notin expired /\ expired' = expired \cup {n}
  /\ UNCHANGED <<map, codes, draft, tried, changes, redeemed, left, away, cap, sure, ghosts>>

-----------------------------------------------------------------------------
(* Mutation of Redeemable: whether it is used is not looked at.            *)
RedeemableTwice(n, current) == n \notin expired /\ current \in {"none", codes[n].of}

(* redeemLinkCode: open, and of the handle the sender is linked to if any. *)
Redeemable(n, current) ==
  n \notin expired /\ codes[n].state = "open" /\ current \in {"none", codes[n].of}

(* A sender says `link <code>`: it is seen (identityFor), the limiter      *)
(* counts, the code is marked used, then the map is written.  The house    *)
(* may end between the two writes, and linkIdentity throws for a handle    *)
(* the house does not know; any other attempt is answered and changes      *)
(* nothing but the count.                                                  *)
Redeems(id, n) ==
  LET h == codes[n].of
      current == IF EntryOf(id).linked THEN EntryOf(id).handle ELSE "none"
  IN /\ Known(id) /\ tried[id] < Attempts /\ Redeemable(n, current)
     /\ codes' = [codes EXCEPT ![n].state = "used"]
     /\ redeemed' = [redeemed EXCEPT ![n] = Append(@, id)]
     /\ \/ /\ h \in Rooted /\ map' = LinkedMap(id, h) /\ tried' = [tried EXCEPT ![id] = @ + 1]
           /\ ghosts' = ghosts \cup (IF EntryOf(id).kind = "none" THEN {} ELSE {h, EntryOf(id).handle})
           /\ UNCHANGED changes
        \/ /\ h \notin Rooted /\ tried' = [tried EXCEPT ![id] = @ + 1]
           /\ ghosts' = ghosts \cup {"spent"} /\ UNCHANGED <<map, changes>>
        \/ /\ Changes /\ tried' = [a \in Accounts |-> 0] /\ ghosts' = ghosts \cup {"spent"} /\ UNCHANGED map
     /\ UNCHANGED <<draft, expired, left, away, cap, sure>>

(* Too many, a code nobody minted, one that is used or expired, or one of  *)
(* another handle than the sender's.                                       *)
Refused(id) ==
  /\ Known(id) /\ tried[id] < Attempts /\ tried' = [tried EXCEPT ![id] = @ + 1]
  /\ UNCHANGED <<map, CodeState, draft, changes, cap, sure, ghosts>>
WindowOver(id) ==
  /\ tried[id] > 0 /\ Changes /\ tried' = [tried EXCEPT ![id] = @ - 1]
  /\ UNCHANGED <<map, CodeState, draft, cap, sure, ghosts>>

Next ==
  \/ \E id \in Accounts : Sees(id) \/ Refused(id) \/ WindowOver(id)
  \/ \E h \in Handles, keeper \in BOOLEAN, limit \in 0 .. NoLimit : Marks(h, limit, keeper)
  \/ \E h \in Handles : Clears(h)
  \/ \E old \in Accounts, new \in Owners : Rechristens(old, new)
  \/ \E op \in {"mint", "revoke", "disconnect"}, h \in Owners : AppReads(op, h)
  \/ AppWrites
  \/ \E n \in DOMAIN codes : Expires(n) \/ \E id \in Accounts : Redeems(id, n)
Spec == Init /\ [][Next]_linkVars

-----------------------------------------------------------------------------
(* Unless the app's write crossed another: a code is redeemed once; none   *)
(* that was revoked is good; an account is linked to a handle by a code of *)
(* that handle, minted since its owner last disconnected; and what only a  *)
(* keeper may do to a mark nobody else did (but see KeepersWord).          *)
Holds(h) == \A i \in DOMAIN map :
  map[i].linked /\ map[i].handle = h =>
    \E n \in DOMAIN codes \ away[h] : codes[n].of = h /\ Contains(redeemed[n], map[i].id)
Stands(h) == (h \in sure => KindOf(h) = "human") /\ LimitOf(h) <= cap[h]
LinksSound ==
  "crossed" \notin ghosts =>
    /\ \A n \in DOMAIN redeemed : Len(redeemed[n]) <= 1
    /\ \A h \in Owners : Holds(h) /\ \A n \in left[h] : codes[n] # Code(h)
    /\ \A h \in Handles \ ghosts : Stands(h)

(* Violated.  link-codes.mjs:12: "Single-use: `used` flips true on the     *)
(* first successful redemption"; the app's write may bring the code back.  *)
SingleUse == \A n \in DOMAIN redeemed : Len(redeemed[n]) <= 1

(* Violated.  link-codes.mjs:13: a refused redemption "never marks it, so  *)
(* the code still works": one whose handle the house turns out not to know *)
(* is marked before linkIdentity refuses it.                               *)
RefusedKeepsCode == "spent" \notin ghosts

(* Violated.  identity-map.mjs:200-202: "un-marking, raising or removing a *)
(* limit needs a keeper", and "only a keeper overrides" a human's mark; an *)
(* account that is linked (again) has its entry written without marks.     *)
KeepersWord == \A h \in Handles : Stands(h)
============================================================================
