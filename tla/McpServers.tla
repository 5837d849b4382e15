----------------------------- MODULE McpServers -----------------------------
(***************************************************************************)
(* The session the house keeps with one MCP server whose tools it offers   *)
(* its beings (tools/mcp-tools.mjs), and the calls that ride it: any call  *)
(* and the retry tick may be opening a session while another call finds    *)
(* its own gone, closes what it finds in its place and opens one more.     *)
(* The server and the SDK's client are external: a session opens or fails  *)
(* to, a call is carried out and answered, refused, or lost with its       *)
(* session.                                                                *)
(***************************************************************************)
EXTENDS Naturals, FiniteSets, FiniteSetsExt

CONSTANTS Calls, MaxSessions, MaxDrops, MaxRefusals   \* the last three are bounds

VARIABLES
  client,    \* s.client: the session calls ride, 0 for none
  offered,   \* definitions holds the server's tools
  session,   \* of each session: none, opening, open, failed, lost (the server forgot it), closing, closed
  opener,    \* the session that a call, or the retry tick, is opening
  call,      \* a call: [at, on, said]
  ran,       \* the server has carried out this attempt
  done,      \* ghost: how often it carried the call out
  adopted,   \* ghost: the last session that was s.client
  drops, refusals

mcpVars == <<client, offered, session, opener, call, ran, done, adopted, drops, refusals>>
Sessions == 1 .. MaxSessions
Tick == "tick"
Rides(at, k) == [at |-> at, on |-> k, said |-> ""]
Says(c, what) == call' = [call EXCEPT ![c] = [at |-> "said", on |-> 0, said |-> what]]

Init ==
  /\ client = 0 /\ offered = FALSE /\ session = [k \in Sessions |-> "none"]
  /\ opener = [x \in Calls \cup {Tick} |-> 0]
  /\ call = [c \in Calls |-> Rides("idle", 0)]
  /\ ran = [c \in Calls |-> FALSE] /\ done = [c \in Calls |-> 0]
  /\ adopted = 0 /\ drops = 0 /\ refusals = 0

-----------------------------------------------------------------------------
(* connect, by a call or by the tick: nothing to do with a client at hand. *)
Unused == {k \in Sessions : session[k] = "none"}
Opens(x) ==
  /\ Unused # {} /\ session' = [session EXCEPT ![Min(Unused)] = "opening"]
  /\ opener' = [opener EXCEPT ![x] = Min(Unused)]
ConnectNamed ==
  /\ client = 0 /\ opener[Tick] = 0 /\ Opens(Tick)
  /\ UNCHANGED <<client, offered, call, ran, done, adopted, drops, refusals>>
(* What a call does when its connect returns: rides the client there is.   *)
Onward(at) == IF at = "connecting" THEN "called" ELSE "again"
Continues(x, k) ==
  IF x = Tick THEN UNCHANGED <<call, ran>>
  ELSE /\ IF k # 0 THEN call' = [call EXCEPT ![x] = Rides(Onward(@.at), k)]
          ELSE Says(x, IF call[x].at = "connecting" THEN "unreachable" ELSE "error")
       /\ ran' = [ran EXCEPT ![x] = FALSE]
Connected(x) ==
  /\ opener[x] # 0 /\ session' = [session EXCEPT ![opener[x]] = "open"]
  /\ client' = opener[x] /\ adopted' = opener[x] /\ offered' = TRUE
  /\ opener' = [opener EXCEPT ![x] = 0] /\ Continues(x, opener[x])
  /\ UNCHANGED <<done, drops, refusals>>
NotConnected(x) ==
  /\ opener[x] # 0 /\ session' = [session EXCEPT ![opener[x]] = "failed"]
  /\ opener' = [opener EXCEPT ![x] = 0] /\ Continues(x, client)
  /\ UNCHANGED <<client, offered, done, adopted, drops, refusals>>

-----------------------------------------------------------------------------
(* run: a call rides the client there is, or opens one first.              *)
Run(c) ==
  /\ call[c].at = "idle"
  /\ \/ /\ client # 0 /\ call' = [call EXCEPT ![c] = Rides("called", client)]
        /\ UNCHANGED <<session, opener>>
     \/ /\ client = 0 /\ Opens(c) /\ call' = [call EXCEPT ![c] = Rides("connecting", 0)]
  /\ UNCHANGED <<client, offered, ran, done, adopted, drops, refusals>>
Rode(c) == call[c].at \in {"called", "again"}
ServerDoes(c) ==
  /\ Rode(c) /\ session[call[c].on] = "open" /\ ~ran[c]
  /\ ran' = [ran EXCEPT ![c] = TRUE] /\ done' = [done EXCEPT ![c] = @ + 1]
  /\ UNCHANGED <<client, offered, session, opener, call, adopted, drops, refusals>>
Answered(c) ==
  /\ Rode(c) /\ ran[c] /\ session[call[c].on] = "open" /\ Says(c, "ok")
  /\ UNCHANGED <<client, offered, session, opener, ran, done, adopted, drops, refusals>>
TimesOut(c) ==
  /\ Rode(c) /\ Says(c, IF call[c].at = "called" THEN "late" ELSE "lateAgain")
  /\ UNCHANGED <<client, offered, session, opener, ran, done, adopted, drops, refusals>>
(* The call's promise is rejected, its session gone or the server refusing *)
(* it; reconnect lets go of whatever session there is by now.              *)
Reconnect(c) ==
  /\ client' = 0 /\ call' = [call EXCEPT ![c] = Rides("closing", client)]
  /\ session' = IF client = 0 THEN session ELSE [session EXCEPT ![client] = "closing"]
Rejected(c) ==
  /\ Rode(c)
  /\ IF session[call[c].on] = "open"
     THEN ~ran[c] /\ refusals < MaxRefusals /\ refusals' = refusals + 1
     ELSE UNCHANGED refusals
  /\ \/ call[c].at = "called" /\ Reconnect(c)
     \/ call[c].at = "again" /\ Says(c, "error") /\ UNCHANGED <<client, session>>
  /\ UNCHANGED <<offered, opener, ran, done, adopted, drops>>
(* The old session's close has settled: connect, unless another call has.  *)
Closed(c) ==
  /\ call[c].at = "closing"
  /\ \/ /\ client # 0 /\ call' = [call EXCEPT ![c] = Rides("again", client)]
        /\ ran' = [ran EXCEPT ![c] = FALSE] /\ UNCHANGED <<session, opener>>
     \/ /\ client = 0 /\ Opens(c) /\ call' = [call EXCEPT ![c] = Rides("reconnecting", 0)]
        /\ UNCHANGED ran
  /\ UNCHANGED <<client, offered, done, adopted, drops, refusals>>
(* The server forgets its sessions with its end.                           *)
Forgets(k) ==
  /\ session[k] = "open" /\ drops < MaxDrops /\ drops' = drops + 1
  /\ session' = [session EXCEPT ![k] = "lost"]
  /\ UNCHANGED <<client, offered, opener, call, ran, done, adopted, refusals>>
(* onclose: its tools go, if it is still the one the house rides.          *)
OnClose(k) ==
  /\ session[k] \in {"lost", "closing"} /\ session' = [session EXCEPT ![k] = "closed"]
  /\ IF client = k THEN client' = 0 /\ offered' = FALSE ELSE UNCHANGED <<client, offered>>
  /\ UNCHANGED <<opener, call, ran, done, adopted, drops, refusals>>

Next ==
  \/ ConnectNamed
  \/ \E x \in Calls \cup {Tick} : Connected(x) \/ NotConnected(x)
  \/ \E c \in Calls : Run(c) \/ ServerDoes(c) \/ Answered(c) \/ TimesOut(c) \/ Rejected(c) \/ Closed(c)
  \/ \E k \in Sessions : Forgets(k) \/ OnClose(k)
Spec == Init /\ [][Next]_mcpVars

-----------------------------------------------------------------------------
(* The session that is ridden has its tools offered, and the end of one    *)
(* that was replaced takes nothing from it: a house without a session had  *)
(* none, or its last one is gone.                                          *)
RidesTheLast ==
  /\ client # 0 => (offered /\ client = adopted)
  /\ (client = 0 /\ adopted # 0) => session[adopted] # "open"
(* What a being is told of its call: done, when it was; "unreachable" of   *)
(* a call the server never saw; and one that timed out, which may still be *)
(* under way there, is not sent a second time.                             *)
ToldTruly ==
  \A c \in Calls :
    /\ call[c].said = "ok" => done[c] > 0
    /\ call[c].said = "unreachable" => done[c] = 0
    /\ call[c].said = "late" => done[c] <= 1
    /\ done[c] <= 2
McpSound == RidesTheLast /\ ToldTruly

(* One session to a server: two that open at once leave one that nothing   *)
(* rides and nothing closes.                                               *)
OneSession == Cardinality({k \in Sessions : session[k] = "open"}) <= 1
(* "A server that restarted forgets our session: open a fresh one and try  *)
(* once more" (tools/mcp-tools.mjs:188-190), of every call under way.      *)
SurvivesARestart ==
  (drops <= 1 /\ refusals = 0 /\ \A k \in Sessions : session[k] # "failed") =>
    \A c \in Calls : call[c].said # "error"
(* What is offered can be called: reconnect empties s.tools and leaves the *)
(* definitions, so that they outlive a reconnect that fails.               *)
OfferedIsOpen == offered => (client # 0 \/ \E c \in Calls : call[c].at \in {"closing", "reconnecting"})
=============================================================================
