--------------------------- MODULE CollaborationRoom ---------------------------
(***************************************************************************)
(* Live co-working: the host shares one remote session, a member who holds *)
(* the control lease proposes single inputs, two identities approve one,   *)
(* and the host's window consumes it and sends it to the session.          *)
(*                                                                         *)
(*   src/src/collaboration_session.rs      the room, on the team server    *)
(*   src/src/team_server.rs                identities, token revocation    *)
(*   src/src/app/collaboration_panel.rs    the host's window               *)
(*   src/src/app/collaboration_capture.rs  its frames, and the input       *)
(*                                                                         *)
(* The server handles one request at a time.  The host's window has one    *)
(* command under way; what the server did with it may be lost, or be old   *)
(* by the time the window learns of it.  The model follows the host's      *)
(* newest room.                                                            *)
(***************************************************************************)
EXTENDS Naturals, FiniteSets

CONSTANTS
  Host, Members,  \* actors of the room
  Federated,      \* those of them with OIDC identities, the others have tokens
  Tokens, Bearer, \* tokens with a role that operates, and whose they are
  Frames, Blank,  \* frame hashes; no frame
  Proposals,      \* ids
  MaxGeneration   \* bound: how often control is granted or revoked

Actors == {Host} \cup Members

ASSUME RoomAssumption ==
  /\ Host \notin Members /\ Federated \subseteq Members
  /\ Bearer \in [Tokens -> Actors \ Federated] /\ Blank \notin Frames /\ MaxGeneration \in Nat

VARIABLES
  tokens,    \* those not revoked
  bound,     \* OIDC identities the configuration binds to an operating role
  room,      \* the row of live_rooms
  made,      \* ids of proposals handed out so far
  screen,    \* the frame the remote session shows
  selected,  \* the shared session is connected and selected in the host's window
  consent,   \* CollaborationState.consent
  joined,    \* CollaborationState.room: the window shows the room
  call,      \* CollaborationState.pending and pending_command
  used,      \* CaptureState.used: inputs sent
  consumed,  \* history: how often each proposal was consumed, and with what
  voided     \* history: votes of actors who since left or had a token revoked

identities == <<tokens, bound>>
window     == <<selected, consent, joined, call>>
roomVars   == <<identities, room, made, screen, window, used, consumed, voided>>

NoRoom  == [gen |-> 0]
NoLease == [actor |-> Host, gen |-> 0, over |-> TRUE]
NoAsk   == [gen |-> 0, frame |-> Blank, votes |-> {}, consumed |-> FALSE]
NoCall  == [cmd |-> "none", arg |-> Host, at |-> "none", ask |-> NoAsk, over |-> FALSE]
None    == [p \in Proposals |-> NoAsk]

-----------------------------------------------------------------------------
(* The room.                                                               *)

HasToken(a)   == \E t \in tokens : Bearer[t] = a
CanOperate(a) == IF a \in Federated THEN a \in bound ELSE HasToken(a)

WithoutLease(r) == [r EXCEPT !.gen = @ + 1, !.lease = NoLease, !.asks = None]

\* Every request first drops a lease that ran out or whose holder has no token.
Refreshed(r) ==
  IF r.lease # NoLease /\ (r.lease.over \/ ~HasToken(r.lease.actor))
  THEN WithoutLease(r) ELSE r

\* Mutant: the votes of one who goes stay.
Departed_Votes(r, a) == IF r.lease # NoLease /\ r.lease.actor = a THEN WithoutLease(r) ELSE r

\* One who leaves, or whose token is revoked, takes votes and control along.
Departed(r, a) ==
  IF r.lease # NoLease /\ r.lease.actor = a THEN WithoutLease(r)
  ELSE [r EXCEPT !.asks = [p \in Proposals |-> [r.asks[p] EXCEPT !.votes = @ \ {a}]]]

VotesOf(a) == {<<a, p>> : p \in {q \in Proposals : room # NoRoom /\ a \in room.asks[q].votes}}

Live(r)   == {p \in Proposals : r.asks[p] # NoAsk}
Agreed(r, p) ==
  /\ r.asks[p] # NoAsk /\ ~r.asks[p].consumed /\ Cardinality(r.asks[p].votes) >= 2
  /\ r.lease # NoLease /\ r.lease.gen = r.asks[p].gen /\ ~r.lease.over
  /\ r.frame = r.asks[p].frame
  /\ \A a \in r.asks[p].votes : a \in {Host} \cup r.members /\ CanOperate(a)

-----------------------------------------------------------------------------
(* Requests of the members.                                                *)

InRoom(a) == room # NoRoom /\ a \in room.members /\ (HasToken(a) \/ a \in Federated)
Elsewhere == UNCHANGED <<identities, screen, window, used, consumed>>

\* Poll and Annotate, for anybody in the room.
MemberPolls(a) ==
  /\ InRoom(a) /\ room' = Refreshed(room) /\ UNCHANGED <<made, voided>> /\ Elsewhere

MemberLeaves(a) ==
  /\ InRoom(a) /\ voided' = voided \cup VotesOf(a)
  /\ room' = [Departed(Refreshed(room), a) EXCEPT !.members = @ \ {a}]
  /\ UNCHANGED made /\ Elsewhere

\* Propose, for the frame and the lease of the moment.
Propose(a, p) ==
  LET r == Refreshed(room) IN
  /\ InRoom(a) /\ CanOperate(a) /\ p \notin made
  /\ r.lease # NoLease /\ r.lease.actor = a /\ r.frame # Blank
  /\ room' = [r EXCEPT !.asks[p] = [NoAsk EXCEPT !.gen = r.gen, !.frame = r.frame]]
  /\ made' = made \cup {p} /\ UNCHANGED voided /\ Elsewhere

MemberApproves(a, p) ==
  LET r == Refreshed(room) IN
  /\ InRoom(a) /\ CanOperate(a) /\ p \in Live(r) /\ ~r.asks[p].consumed
  /\ room' = [r EXCEPT !.asks[p].votes = @ \cup {a}]
  /\ voided' = voided \ {<<a, p>>} /\ UNCHANGED made /\ Elsewhere

-----------------------------------------------------------------------------
(* The host's window, and its commands at the server.                      *)

Send(cmd, arg) == call' = [NoCall EXCEPT !.cmd = cmd, !.arg = arg, !.at = "sent"]
Quiet    == UNCHANGED <<identities, room, made, screen, selected, used, consumed, voided>>
Sharing  == joined /\ consent /\ selected
MayTurn  == room # NoRoom => room.gen + 2 <= MaxGeneration  \* bound

ShareSession ==
  /\ call = NoCall /\ ~joined /\ selected
  /\ consent' = TRUE /\ Send("create", Host) /\ UNCHANGED joined /\ Quiet
JoinRoom ==
  /\ call = NoCall /\ ~joined /\ consent' = FALSE /\ Send("poll", Host)
  /\ UNCHANGED joined /\ Quiet
LeaveRoom ==
  /\ call = NoCall /\ joined /\ consent' = FALSE /\ Send("leave", Host)
  /\ UNCHANGED joined /\ Quiet
RevokeControl ==
  /\ call = NoCall /\ joined /\ MayTurn /\ Send("revoke", Host) /\ UNCHANGED <<consent, joined>> /\ Quiet
GrantControl(a) ==
  /\ call = NoCall /\ Sharing /\ MayTurn /\ Send("grant", a) /\ UNCHANGED <<consent, joined>> /\ Quiet
HostApproves(p) ==
  /\ call = NoCall /\ joined /\ Send("approve", p) /\ UNCHANGED <<consent, joined>> /\ Quiet
ConsumeRequest(p) ==
  /\ call = NoCall /\ Sharing /\ Send("consume", p) /\ UNCHANGED <<consent, joined>> /\ Quiet

\* Every 200 ms: publish what is shared, a masked frame of the last 2 seconds; close
\* what no longer is or cannot be masked in time; or poll.
WindowPolls ==
  /\ call = NoCall /\ joined /\ UNCHANGED joined /\ Quiet
  /\ \/ Sharing /\ (\E f \in Frames : Send("publish", f)) /\ UNCHANGED consent
     \/ consent /\ Send("close", Host) /\ consent' = FALSE
     \/ ~consent /\ Send("poll", Host) /\ UNCHANGED consent

\* The answer reaches the window, or a refusal or an interrupted connection makes
\* it stop sharing.
Take == /\ call' = NoCall /\ joined' = (call.cmd \notin {"close", "leave"}) /\ UNCHANGED consent
Stop == call' = NoCall /\ joined' = FALSE /\ consent' = FALSE

Reply(r)  == room' = r /\ (Take \/ Stop)
Refuse    == UNCHANGED <<room, consumed, voided>> /\ Stop
Kept      == UNCHANGED <<consumed, voided>>
NewRoom   == [gen |-> 0, members |-> Members, lease |-> NoLease, frame |-> Blank, asks |-> None]
CallIs(cmd) == call.cmd = cmd /\ call.at = "sent"
Aside     == UNCHANGED <<identities, made, screen, selected, used>>
Served(r) == IF HasToken(Host) /\ room # NoRoom THEN Reply(r) ELSE Refuse

\* Create, Poll, Close, Leave, Revoke of the host.
ServeCreate == CallIs("create") /\ (IF HasToken(Host) THEN Reply(NewRoom) ELSE Refuse) /\ Kept /\ Aside
ServePoll   == CallIs("poll") /\ Served(Refreshed(room)) /\ Kept /\ Aside
ServeClose  == (CallIs("close") \/ CallIs("leave")) /\ Served(NoRoom) /\ Kept /\ Aside
ServeRevoke == CallIs("revoke") /\ Served(WithoutLease(Refreshed(room))) /\ Kept /\ Aside

\* Mutant: proposals outlive the frame they were made for.
ServePublish_Keeps ==
  CallIs("publish") /\ Served([Refreshed(room) EXCEPT !.frame = call.arg]) /\ Kept /\ Aside

\* Publish: another frame makes what was proposed for the last one void.
ServePublish ==
  LET r == Refreshed(room) IN
  /\ CallIs("publish") /\ Kept /\ Aside
  /\ Served([r EXCEPT !.frame = call.arg,
                      !.asks = IF r.frame \in {Blank, call.arg} THEN @ ELSE None])

ServeGrant ==
  LET r == Refreshed(room)
      g == r.gen + 1 IN
  /\ CallIs("grant") /\ Kept /\ Aside
  /\ IF room # NoRoom /\ HasToken(Host) /\ call.arg \in r.members /\ CanOperate(call.arg)
     THEN Reply([r EXCEPT !.gen = g, !.asks = None,
                          !.lease = [actor |-> call.arg, gen |-> g, over |-> FALSE]])
     ELSE Refuse

ServeApprove ==
  LET r == Refreshed(room)
      p == call.arg IN
  /\ CallIs("approve") /\ UNCHANGED consumed /\ Aside
  /\ IF room # NoRoom /\ HasToken(Host) /\ p \in Live(r) /\ ~r.asks[p].consumed
     THEN Reply([r EXCEPT !.asks[p].votes = @ \cup {Host}]) /\ voided' = voided \ {<<Host, p>>}
     ELSE Refuse

\* Mutant: a consumed proposal stays as it was.
ServeConsume_Again ==
  LET r == Refreshed(room)
      p == call.arg IN
  /\ CallIs("consume") /\ UNCHANGED voided /\ Aside
  /\ IF room # NoRoom /\ HasToken(Host) /\ Agreed(r, p)
     THEN /\ room' = r /\ call' = [call EXCEPT !.at = "answered", !.ask = r.asks[p]]
          /\ consumed' = [consumed EXCEPT ![p] = @ + 1] /\ UNCHANGED <<consent, joined>>
     ELSE Refuse

ServeConsume ==
  LET r == Refreshed(room)
      p == call.arg IN
  /\ CallIs("consume") /\ UNCHANGED voided /\ Aside
  /\ IF room # NoRoom /\ HasToken(Host) /\ Agreed(r, p)
     THEN /\ room' = [r EXCEPT !.asks[p].consumed = TRUE]
          /\ call' = [call EXCEPT !.at = "answered", !.ask = r.asks[p]]
          /\ consumed' = [consumed EXCEPT ![p] = @ + 1] /\ UNCHANGED <<consent, joined>>
     ELSE Refuse

Ended == UNCHANGED <<identities, room, made, screen, selected, consumed, voided>>

\* The connection breaks before the command is served, or before the answer of
\* a consumed one is there.
LoseCall == call # NoCall /\ Stop /\ UNCHANGED used /\ Ended

\* Mutant: the lease of the answer is not looked at.
TakeConsumed_Late ==
  /\ call.at = "answered" /\ call.cmd = "consume" /\ call' = NoCall /\ joined' = TRUE
  /\ used' = IF consent /\ selected /\ call.ask.frame = screen
             THEN used \cup {call.arg} ELSE used
  /\ UNCHANGED consent /\ Ended

\* A consumed request is sent to the session, if it still may be.
TakeConsumed ==
  /\ call.at = "answered" /\ call.cmd = "consume" /\ call' = NoCall /\ joined' = TRUE
  /\ used' = IF consent /\ selected /\ ~call.over /\ call.ask.frame = screen
             THEN used \cup {call.arg} ELSE used
  /\ UNCHANGED consent /\ Ended

-----------------------------------------------------------------------------
(* What goes on around them.                                               *)

\* An administrator revokes a token: that ends the votes and the control of its
\* bearer, whatever other tokens there are; a host's room is closed.
RevokeToken(t) ==
  LET a == Bearer[t] IN
  /\ t \in tokens /\ tokens' = tokens \ {t} /\ voided' = voided \cup VotesOf(a)
  /\ room' = IF room = NoRoom \/ a = Host THEN NoRoom ELSE Departed(room, a)
  /\ UNCHANGED <<bound, made, screen, window, used, consumed>>

Rebind(a) ==
  /\ bound' = IF a \in bound THEN bound \ {a} ELSE bound \cup {a}
  /\ UNCHANGED <<tokens, room, made, screen, window, used, consumed, voided>>

\* 20 seconds, at the server and in an answer that cites the lease.
LeaseLapses ==
  LET cited(g) == call.at = "answered" /\ call.cmd = "consume" /\ call.ask.gen = g IN
  /\ \/ /\ room # NoRoom /\ ~room.lease.over
        /\ room' = [room EXCEPT !.lease.over = TRUE]
        /\ call' = [call EXCEPT !.over = @ \/ cited(room.lease.gen)]
     \/ /\ ~call.over /\ cited(call.ask.gen)
        /\ ~(room # NoRoom /\ room.lease.gen = call.ask.gen)
        /\ call' = [call EXCEPT !.over = TRUE] /\ UNCHANGED room
  /\ UNCHANGED <<identities, made, screen, selected, consent, joined, used, consumed, voided>>

\* 30 seconds without a request of the host, or a restart of the server: the table
\* is a temporary one.
RoomLapses ==
  /\ room # NoRoom /\ room' = NoRoom
  /\ UNCHANGED <<identities, made, screen, window, used, consumed, voided>>

\* The session shows another frame; another session is selected, or this one again.
Desktop ==
  /\ \/ \E f \in Frames : screen' = f /\ UNCHANGED selected
     \/ selected' = ~selected /\ UNCHANGED screen
  /\ UNCHANGED <<identities, room, made, consent, joined, call, used, consumed, voided>>

\* The program is closed and opened again.
RestartWindow ==
  /\ consent' = FALSE /\ joined' = FALSE /\ call' = NoCall /\ used' = {} /\ Ended

RoomInit ==
  /\ tokens = Tokens /\ bound = Federated /\ room = NoRoom /\ made = {}
  /\ screen \in Frames /\ selected = TRUE /\ consent = FALSE
  /\ joined = FALSE /\ call = NoCall /\ used = {} /\ voided = {}
  /\ consumed = [p \in Proposals |-> 0]

Member(a) ==
  \/ MemberPolls(a) \/ MemberLeaves(a)
  \/ \E p \in Proposals : Propose(a, p) \/ MemberApproves(a, p)
Buttons ==
  \/ ShareSession \/ JoinRoom \/ LeaveRoom \/ RevokeControl
  \/ \E a \in Members : GrantControl(a)
  \/ \E p \in Proposals : HostApproves(p) \/ ConsumeRequest(p)
Server ==
  \/ ServeCreate \/ ServePoll \/ ServeClose \/ ServeRevoke
  \/ ServePublish \/ ServeGrant \/ ServeApprove \/ ServeConsume
Around ==
  \/ \E t \in Tokens : RevokeToken(t)
  \/ \E a \in Federated : Rebind(a)
  \/ LeaseLapses \/ RoomLapses \/ Desktop

RoomNext ==
  \/ \E a \in Members : Member(a)
  \/ Buttons \/ WindowPolls \/ LoseCall \/ TakeConsumed \/ RestartWindow
  \/ Server \/ Around

RoomSpec == RoomInit /\ [][RoomNext]_roomVars

-----------------------------------------------------------------------------
(* Properties.                                                             *)

Leases   == [actor : Members, gen : Nat, over : BOOLEAN] \cup {NoLease}
Asks     == [gen : Nat, frame : Frames \cup {Blank}, votes : SUBSET Actors, consumed : BOOLEAN]
Commands == {"create", "poll", "leave", "close", "revoke", "grant", "publish", "approve", "consume"}

\* The types the code gives its state; control is handed on at most as often as
\* the generation counts.
RoomTypeOK ==
  /\ tokens \subseteq Tokens /\ bound \subseteq Federated
  /\ room # NoRoom =>
       /\ room.gen \in 0..(MaxGeneration + 2) /\ room.members \subseteq Members
       /\ room.lease \in Leases /\ room.lease.gen <= room.gen
       /\ room.frame \in Frames \cup {Blank} /\ room.asks \in [Proposals -> Asks]
       /\ Live(room) \subseteq made
  /\ made \subseteq Proposals /\ used \subseteq made
  /\ screen \in Frames /\ selected \in BOOLEAN /\ consent \in BOOLEAN /\ joined \in BOOLEAN
  /\ call # NoCall =>
       call.cmd \in Commands /\ call.at \in {"sent", "answered"} /\ call.ask \in Asks
  /\ consumed \in [Proposals -> Nat] /\ voided \subseteq Actors \X Proposals

\* What is proposed is for the frame the room shows and the lease somebody holds:
\* a changed frame, a lease that ended or went to another one takes it away.
ProposalsAreCurrent ==
  room # NoRoom => \A p \in Live(room) :
    /\ room.lease # NoLease /\ room.asks[p].gen = room.lease.gen
    /\ room.asks[p].frame = room.frame

\* A vote counts only while its caster is in the room and since the last time a
\* token of that actor was revoked, even when the actor has another token.
VotesStand ==
  room # NoRoom => \A p \in Live(room) : \A a \in room.asks[p].votes :
    <<a, p>> \notin voided /\ a \in {Host} \cup room.members

\* A request is consumed once, whatever answers get lost or windows restart.
ConsumedOnce == \A p \in Proposals : consumed[p] <= 1

\* Input reaches the session only when two identities approved it, for the frame
\* the session shows at that moment, under a lease that has not run out, and while
\* the host consents to share the session that is selected.
InputIsAgreed ==
  [][\A p \in used' \ used :
       /\ consumed[p] = 1 /\ Cardinality(call.ask.votes) >= 2 /\ screen = call.ask.frame
       /\ consent /\ selected
       /\ (room # NoRoom /\ room.lease.gen = call.ask.gen) => ~room.lease.over]_roomVars

\* docs/relayne-collaboration.md:5: "The owner grants one member an exclusive
\* 20-second control lease. That member needs an operator/admin role."  So whoever
\* has that role keeps it, unless it runs out, is revoked or they leave.
LeaseIsKept ==
  [][(room # NoRoom /\ room' # NoRoom /\ ~room.lease.over /\ room'.lease = NoLease) =>
       \/ ~CanOperate(room.lease.actor) \/ room.lease.actor \notin room'.members
       \/ call.cmd \in {"revoke", "create"} \/ tokens' # tokens]_roomVars

================================================================================
