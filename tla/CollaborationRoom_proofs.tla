----------------------- MODULE CollaborationRoom_proofs -----------------------
(***************************************************************************)
(* What a shared session guarantees for any number of members, tokens,     *)
(* frames and proposals, however requests, answers, revocations, lapses    *)
(* and restarts interleave.                                                *)
(*                                                                         *)
(* Good says of a room that what is proposed in it belongs to the lease    *)
(* and the frame of the moment, and carries votes of people who are there. *)
(* Answer says of the host's window that the consumed request it waits for *)
(* was agreed, and that a lease which ran out since is marked in it.       *)
(***************************************************************************)
EXTENDS CollaborationRoom, TLAPS

Rooms == [gen : Nat, members : SUBSET Members, lease : Leases, frame : Frames \cup {Blank},
          asks : [Proposals -> Asks]]

\* v: votes that were taken away; m: proposals made; c: how often each was consumed.
GoodAsk(r, p, v, m, c) ==
  /\ r.lease # NoLease /\ r.asks[p].gen = r.lease.gen /\ r.asks[p].gen # 0
  /\ r.asks[p].frame = r.frame /\ r.frame # Blank
  /\ p \in m /\ (c[p] # 0 => r.asks[p].consumed)
  /\ \A a \in r.asks[p].votes : <<a, p>> \notin v /\ a \in {Host} \cup r.members

Good(r, v, m, c) ==
  /\ r \in Rooms /\ r.lease.gen <= r.gen
  /\ r.lease # NoLease => r.lease.gen = r.gen /\ r.gen # 0
  /\ \A p \in Proposals : r.asks[p] # NoAsk => GoodAsk(r, p, v, m, c)

Calls == [cmd : Commands \cup {"none"}, arg : Actors \cup Frames \cup Proposals,
          at : {"none", "sent", "answered"}, ask : Asks, over : BOOLEAN]

CallTyped ==
  /\ call \in Calls
  /\ call.cmd = "publish" => call.arg \in Frames
  /\ call.cmd \in {"approve", "consume"} => call.arg \in Proposals

Answer ==
  call.at = "answered" =>
    /\ call.cmd = "consume" /\ consumed[call.arg] = 1
    /\ Cardinality(call.ask.votes) >= 2 /\ call.ask.gen # 0
    /\ (room # NoRoom /\ room.lease.gen = call.ask.gen /\ ~call.over) => ~room.lease.over

Counted ==
  /\ consumed \in [Proposals -> Nat] /\ made \subseteq Proposals
  /\ \A p \in Proposals : consumed[p] <= 1 /\ (consumed[p] # 0 => p \in made)

Surroundings ==
  /\ tokens \subseteq Tokens /\ bound \subseteq Federated /\ screen \in Frames
  /\ selected \in BOOLEAN /\ consent \in BOOLEAN /\ joined \in BOOLEAN
  /\ used \subseteq made /\ voided \subseteq Actors \X Proposals

RoomFine == room # NoRoom => Good(room, voided, made, consumed)

RoomInv ==
  /\ RoomFine
  /\ CallTyped /\ Answer /\ Counted /\ Surroundings
-----------------------------------------------------------------------------
(* What the operations on a room do.                                       *)

\* The host is not a member, so no lease a member holds is the absence of one.
LEMMA LeaseHeld ==
  ASSUME NEW l \in Leases PROVE (l # NoLease) <=> l.actor \in Members
  BY RoomAssumption DEF Leases, NoLease

\* No proposal is live where all of them are absent.
LEMMA NothingAsked ==
  /\ NoAsk \in Asks /\ None \in [Proposals -> Asks] /\ \A p \in Proposals : None[p] = NoAsk
  BY DEF NoAsk, Asks, None

\* Taking the lease away voids what was proposed under it.
LEMMA WithoutLeaseGood ==
  ASSUME NEW r, NEW v, NEW m, NEW c, Good(r, v, m, c)
  PROVE  Good(WithoutLease(r), v, m, c)
  <1> DEFINE w == WithoutLease(r)
  <1>1. /\ r \in Rooms /\ r.gen \in Nat  BY DEF Good, Rooms
  <1>2. NoLease \in Leases /\ NoLease.gen = 0  BY DEF NoLease, Leases
  <1>3. /\ w.gen = r.gen + 1 /\ w.lease = NoLease /\ w.asks = None /\ w \in Rooms
    <2>1. WithoutLease(r) = [r EXCEPT !.gen = r.gen + 1, !.lease = NoLease, !.asks = None]
      BY DEF WithoutLease
    <2>2. r.gen + 1 \in Nat  BY <1>1
    <2> QED BY <1>1, <1>2, <2>1, <2>2, NothingAsked DEF Rooms
  <1> HIDE DEF w
  <1> QED BY <1>1, <1>2, <1>3, NothingAsked DEF Good, w

\* Every request finds a room in order once what ran out is dropped.
LEMMA RefreshedGood ==
  ASSUME NEW r, NEW v, NEW m, NEW c, Good(r, v, m, c)
  PROVE  Good(Refreshed(r), v, m, c) /\ Refreshed(r).members = r.members
  BY WithoutLeaseGood DEF Refreshed, WithoutLease, Good, Rooms

\* One who leaves takes the votes along, and the lease with all that was proposed
\* under it: nobody's vote stays behind, and none of anybody else is lost track of.
LEMMA DepartedGood ==
  ASSUME NEW r, NEW v, NEW m, NEW c, NEW a, Good(r, v, m, c),
         NEW w, \A q \in w : q \in v \/ q[1] = a
  PROVE  /\ Good(Departed(r, a), w, m, c)
         /\ a # Host => Good([Departed(r, a) EXCEPT !.members = @ \ {a}], w, m, c)
  <1> DEFINE Leaver(d) == [d EXCEPT !.members = @ \ {a}]
  <1>1. r \in Rooms /\ r.asks \in [Proposals -> Asks]  BY DEF Good, Rooms
  <1>2. CASE r.lease # NoLease /\ r.lease.actor = a
    <2> DEFINE d == WithoutLease(r)
    <2>1. Departed(r, a) = d  BY <1>2 DEF Departed
    <2>2. Good(d, v, m, c)  BY WithoutLeaseGood
    <2>3. d.asks = None /\ d \in Rooms  BY <1>1, <2>2 DEF WithoutLease, Good, Rooms
    <2> HIDE DEF d
    <2>4. Good(d, w, m, c)  BY <2>2, <2>3, NothingAsked DEF Good
    <2>5. /\ Leaver(d) \in Rooms /\ Leaver(d).asks = None /\ Leaver(d).lease = d.lease
          /\ Leaver(d).gen = d.gen
      BY <2>3 DEF Rooms
    <2> HIDE DEF Leaver
    <2>6. Good(Leaver(d), w, m, c)  BY <2>2, <2>5, NothingAsked DEF Good
    <2> QED BY <2>1, <2>4, <2>6 DEF Leaver
  <1>3. CASE ~(r.lease # NoLease /\ r.lease.actor = a)
    <2> DEFINE A == [p \in Proposals |-> [r.asks[p] EXCEPT !.votes = @ \ {a}]]
               d == [r EXCEPT !.asks = A]
    <2>1. Departed(r, a) = d  BY <1>3 DEF Departed
    <2>2. A \in [Proposals -> Asks]  BY <1>1 DEF Asks
    <2>3. \A p \in Proposals : A[p] # NoAsk => r.asks[p] # NoAsk
      BY <1>1 DEF Asks, NoAsk
    <2>4. \A p \in Proposals :
            /\ A[p].gen = r.asks[p].gen /\ A[p].frame = r.asks[p].frame
            /\ A[p].consumed = r.asks[p].consumed /\ A[p].votes = r.asks[p].votes \ {a}
      BY <1>1 DEF Asks
    <2> HIDE DEF A
    <2>5. /\ d \in Rooms /\ d.asks = A /\ d.lease = r.lease /\ d.gen = r.gen /\ d.frame = r.frame
          /\ d.members = r.members
      BY <1>1, <2>2 DEF Rooms
    <2>6. /\ Leaver(d) \in Rooms /\ Leaver(d).asks = A /\ Leaver(d).lease = r.lease
          /\ Leaver(d).gen = r.gen /\ Leaver(d).frame = r.frame /\ Leaver(d).members = r.members \ {a}
      BY <2>5 DEF Rooms
    <2> HIDE DEF d, Leaver
    <2>7. \A p \in Proposals : A[p] # NoAsk => GoodAsk(r, p, v, m, c)  BY <2>3 DEF Good
    <2>8. Good(d, w, m, c)  BY <2>4, <2>5, <2>7 DEF Good, GoodAsk
    <2>9. a # Host => Good(Leaver(d), w, m, c)
      BY <2>4, <2>6, <2>7 DEF Good, GoodAsk
    <2> QED BY <2>1, <2>8, <2>9 DEF Leaver
  <1> QED BY <1>2, <1>3
\* A room is opened with nothing in it.
LEMMA NewRoomGood == ASSUME NEW v, NEW m, NEW c PROVE Good(NewRoom, v, m, c)
  <1>1. NewRoom \in Rooms  BY NothingAsked DEF NewRoom, Rooms, Leases, NoLease
  <1> QED BY <1>1, NothingAsked DEF Good, NewRoom, NoLease

\* What is newly proposed is for the lease and the frame of the moment, under an id
\* nobody had.
LEMMA ProposeGood ==
  ASSUME NEW r, NEW v, NEW m, NEW c, NEW p \in Proposals, Good(r, v, m, c),
         p \notin m, c[p] # 0 => p \in m, r.lease # NoLease, r.frame # Blank
  PROVE  Good([r EXCEPT !.asks[p] = [NoAsk EXCEPT !.gen = r.gen, !.frame = r.frame]],
              v, m \cup {p}, c)
  <1> DEFINE ask == [NoAsk EXCEPT !.gen = r.gen, !.frame = r.frame]
             s   == [r EXCEPT !.asks[p] = ask]
  <1>1. r \in Rooms /\ r.asks \in [Proposals -> Asks] /\ r.gen \in Nat /\ r.frame \in Frames \cup {Blank}
    BY DEF Good, Rooms
  <1>2. /\ ask \in Asks /\ ask.gen = r.gen /\ ask.frame = r.frame /\ ask.votes = {}
        /\ ask.consumed = FALSE
    BY <1>1 DEF NoAsk, Asks
  <1> HIDE DEF ask
  <1>3. s.asks = [r.asks EXCEPT ![p] = ask] /\ s.asks \in [Proposals -> Asks]  BY <1>1, <1>2 DEF Rooms
  <1>4. s \in Rooms /\ s.lease = r.lease /\ s.gen = r.gen /\ s.frame = r.frame /\ s.members = r.members
    BY <1>1, <1>3 DEF Rooms
  <1> HIDE DEF s
  <1>5. GoodAsk(s, p, v, m \cup {p}, c)
    <2>1. s.asks[p] = ask  BY <1>1, <1>3
    <2>2. c[p] = 0  OBVIOUS
    <2>3. r.lease.gen = r.gen /\ r.gen # 0  BY DEF Good
    <2> QED BY <1>2, <1>4, <2>1, <2>2, <2>3 DEF GoodAsk
  <1>6. ASSUME NEW q \in Proposals, q # p, s.asks[q] # NoAsk PROVE GoodAsk(s, q, v, m \cup {p}, c)
    <2>1. s.asks[q] = r.asks[q]  BY <1>1, <1>3, <1>6
    <2>2. GoodAsk(r, q, v, m, c)  BY <1>6, <2>1 DEF Good
    <2> QED BY <1>4, <2>1, <2>2 DEF GoodAsk
  <1>7. \A q \in Proposals : s.asks[q] # NoAsk => GoodAsk(s, q, v, m \cup {p}, c)
    BY <1>5, <1>6
  <1>8. Good(s, v, m \cup {p}, c)  BY <1>4, <1>7 DEF Good
  <1> QED BY <1>8 DEF s, ask

\* A vote is of somebody who is in the room, and stands from then on.
LEMMA ApproveGood ==
  ASSUME NEW r, NEW v, NEW m, NEW c, NEW p \in Proposals, Good(r, v, m, c), r.asks[p] # NoAsk,
         NEW a \in {Host} \cup r.members
  PROVE  Good([r EXCEPT !.asks[p].votes = @ \cup {a}], v \ {<<a, p>>}, m, c)
  <1> DEFINE ask == [r.asks[p] EXCEPT !.votes = @ \cup {a}]
             s   == [r EXCEPT !.asks[p] = ask]
  <1>1. r \in Rooms /\ r.asks \in [Proposals -> Asks] /\ r.members \subseteq Members
    BY DEF Good, Rooms
  <1>2. /\ ask \in Asks /\ ask.gen = r.asks[p].gen /\ ask.frame = r.asks[p].frame
        /\ ask.votes = r.asks[p].votes \cup {a} /\ ask.consumed = r.asks[p].consumed
    BY <1>1 DEF Asks, Actors
  <1>3. [r EXCEPT !.asks[p].votes = @ \cup {a}] = s  BY <1>1 DEF Rooms
  <1> HIDE DEF ask
  <1>4. s.asks = [r.asks EXCEPT ![p] = ask] /\ s.asks \in [Proposals -> Asks]  BY <1>1, <1>2 DEF Rooms
  <1>5. s \in Rooms /\ s.lease = r.lease /\ s.gen = r.gen /\ s.frame = r.frame /\ s.members = r.members
    BY <1>1, <1>4 DEF Rooms
  <1> HIDE DEF s
  <1>6. GoodAsk(s, p, v \ {<<a, p>>}, m, c)
    <2>1. s.asks[p] = ask  BY <1>1, <1>4
    <2>2. GoodAsk(r, p, v, m, c)  BY DEF Good
    <2> QED BY <1>2, <1>5, <2>1, <2>2 DEF GoodAsk
  <1>7. ASSUME NEW q \in Proposals, q # p, s.asks[q] # NoAsk PROVE GoodAsk(s, q, v \ {<<a, p>>}, m, c)
    <2>1. s.asks[q] = r.asks[q]  BY <1>1, <1>4, <1>7
    <2>2. GoodAsk(r, q, v, m, c)  BY <1>7, <2>1 DEF Good
    <2> QED BY <1>5, <2>1, <2>2 DEF GoodAsk
  <1>8. \A q \in Proposals : s.asks[q] # NoAsk => GoodAsk(s, q, v \ {<<a, p>>}, m, c)
    BY <1>6, <1>7
  <1>9. Good(s, v \ {<<a, p>>}, m, c)  BY <1>5, <1>8 DEF Good
  <1> QED BY <1>3, <1>9

\* Another frame takes away what was proposed for the last one; a room that showed
\* none had nothing proposed.
LEMMA PublishGood ==
  ASSUME NEW r, NEW v, NEW m, NEW c, Good(r, v, m, c), NEW f \in Frames
  PROVE  Good([r EXCEPT !.frame = f, !.asks = IF r.frame \in {Blank, f} THEN @ ELSE None], v, m, c)
  <1> DEFINE A == IF r.frame \in {Blank, f} THEN r.asks ELSE None
             s == [r EXCEPT !.frame = f, !.asks = A]
  <1>1. r \in Rooms /\ r.asks \in [Proposals -> Asks]  BY DEF Good, Rooms
  <1>2. A \in [Proposals -> Asks]  BY <1>1, NothingAsked
  <1>3. \A p \in Proposals : A[p] # NoAsk => r.frame = f /\ A = r.asks
    BY NothingAsked DEF Good, GoodAsk
  <1> HIDE DEF A
  <1>4. /\ s \in Rooms /\ s.lease = r.lease /\ s.gen = r.gen /\ s.frame = f /\ s.members = r.members
        /\ s.asks = A
    BY <1>1, <1>2 DEF Rooms
  <1> HIDE DEF s
  <1>5. ASSUME NEW p \in Proposals, s.asks[p] # NoAsk PROVE GoodAsk(s, p, v, m, c)
    <2>1. r.frame = f /\ s.asks = r.asks  BY <1>3, <1>4, <1>5
    <2>2. GoodAsk(r, p, v, m, c)  BY <1>5, <2>1 DEF Good
    <2> QED BY <1>4, <2>1, <2>2 DEF GoodAsk
  <1>6. Good(s, v, m, c)  BY <1>4, <1>5 DEF Good
  <1> QED BY <1>6 DEF s, A

\* Control that is handed on starts with nothing proposed.
LEMMA GrantGood ==
  ASSUME NEW r, NEW v, NEW m, NEW c, Good(r, v, m, c), NEW a \in Members
  PROVE  Good([r EXCEPT !.gen = r.gen + 1, !.asks = None,
                        !.lease = [actor |-> a, gen |-> r.gen + 1, over |-> FALSE]], v, m, c)
  <1> DEFINE l == [actor |-> a, gen |-> r.gen + 1, over |-> FALSE]
             s == [r EXCEPT !.gen = r.gen + 1, !.asks = None, !.lease = l]
  <1>1. r \in Rooms /\ r.gen \in Nat  BY DEF Good, Rooms
  <1>2. l \in Leases /\ l.gen = r.gen + 1 /\ r.gen + 1 # 0 /\ r.gen + 1 \in Nat  BY <1>1 DEF Leases
  <1> HIDE DEF l
  <1>3. s \in Rooms /\ s.lease = l /\ s.gen = r.gen + 1 /\ s.asks = None
    BY <1>1, <1>2, NothingAsked DEF Rooms
  <1> HIDE DEF s
  <1>4. Good(s, v, m, c)  BY <1>2, <1>3, NothingAsked DEF Good
  <1> QED BY <1>4 DEF s, l

\* What is consumed is marked, so that it is not consumed again.
LEMMA ConsumeGood ==
  ASSUME NEW r, NEW v, NEW m, NEW c, NEW p \in Proposals, Good(r, v, m, c),
         c \in [Proposals -> Nat], r.asks[p] # NoAsk
  PROVE  Good([r EXCEPT !.asks[p].consumed = TRUE], v, m, [c EXCEPT ![p] = @ + 1])
  <1> DEFINE ask == [r.asks[p] EXCEPT !.consumed = TRUE]
             s   == [r EXCEPT !.asks[p] = ask]
             d   == [c EXCEPT ![p] = @ + 1]
  <1>1. r \in Rooms /\ r.asks \in [Proposals -> Asks]  BY DEF Good, Rooms
  <1>2. /\ ask \in Asks /\ ask.gen = r.asks[p].gen /\ ask.frame = r.asks[p].frame
        /\ ask.votes = r.asks[p].votes /\ ask.consumed = TRUE
    BY <1>1 DEF Asks
  <1>3. [r EXCEPT !.asks[p].consumed = TRUE] = s  BY <1>1 DEF Rooms
  <1> HIDE DEF ask
  <1>4. s.asks = [r.asks EXCEPT ![p] = ask] /\ s.asks \in [Proposals -> Asks]  BY <1>1, <1>2 DEF Rooms
  <1>5. s \in Rooms /\ s.lease = r.lease /\ s.gen = r.gen /\ s.frame = r.frame /\ s.members = r.members
    BY <1>1, <1>4 DEF Rooms
  <1>6. \A q \in Proposals : q # p => d[q] = c[q]  OBVIOUS
  <1> HIDE DEF s, d
  <1>7. GoodAsk(s, p, v, m, d)
    <2>1. s.asks[p] = ask  BY <1>1, <1>4
    <2>2. GoodAsk(r, p, v, m, c)  BY DEF Good
    <2> QED BY <1>2, <1>5, <2>1, <2>2 DEF GoodAsk
  <1>8. ASSUME NEW q \in Proposals, q # p, s.asks[q] # NoAsk PROVE GoodAsk(s, q, v, m, d)
    <2>1. s.asks[q] = r.asks[q] /\ d[q] = c[q]  BY <1>1, <1>4, <1>6, <1>8
    <2>2. GoodAsk(r, q, v, m, c)  BY <1>8, <2>1 DEF Good
    <2> QED BY <1>5, <2>1, <2>2 DEF GoodAsk
  <1>9. \A q \in Proposals : s.asks[q] # NoAsk => GoodAsk(s, q, v, m, d)  BY <1>7, <1>8
  <1>10. Good(s, v, m, d)  BY <1>5, <1>9 DEF Good
  <1> QED BY <1>3, <1>10 DEF d

\* A lease that runs out is the same lease still, until the next request drops it.
LEMMA LapseGood ==
  ASSUME NEW r, NEW v, NEW m, NEW c, Good(r, v, m, c), r.lease # NoLease
  PROVE  Good([r EXCEPT !.lease.over = TRUE], v, m, c)
  <1> DEFINE l == [r.lease EXCEPT !.over = TRUE]
             s == [r EXCEPT !.lease = l]
  <1>1. r \in Rooms /\ r.lease \in Leases  BY DEF Good, Rooms
  <1>2. l \in Leases /\ l.gen = r.lease.gen /\ l.actor = r.lease.actor
    BY <1>1 DEF Leases
  <1>3. (l # NoLease) <=> (r.lease # NoLease)  BY <1>1, <1>2, LeaseHeld
  <1>4. [r EXCEPT !.lease.over = TRUE] = s  BY <1>1 DEF Rooms
  <1> HIDE DEF l
  <1>5. /\ s \in Rooms /\ s.lease = l /\ s.gen = r.gen /\ s.frame = r.frame /\ s.members = r.members
        /\ s.asks = r.asks
    BY <1>1, <1>2 DEF Rooms
  <1> HIDE DEF s
  <1>6. \A p \in Proposals : GoodAsk(r, p, v, m, c) => GoodAsk(s, p, v, m, c)
    BY <1>2, <1>3, <1>5 DEF GoodAsk
  <1>7. Good(s, v, m, c)  BY <1>2, <1>3, <1>5, <1>6 DEF Good
  <1> QED BY <1>4, <1>7

-----------------------------------------------------------------------------
(* The invariant, one action at a time.                                    *)

\* A window without a command has nothing to be typed or answered.
LEMMA NoCallTyped ==
  /\ NoCall \in Calls /\ NoCall.cmd = "none" /\ NoCall.at = "none"
  /\ call' = NoCall => CallTyped' /\ Answer'
  <1>1. NoCall \in Calls /\ NoCall.cmd = "none" /\ NoCall.at = "none"
    BY NothingAsked DEF NoCall, Calls, Actors
  <1> QED BY <1>1 DEF CallTyped, Answer

\* The invariant holds at the start.
LEMMA RoomInitInv == ASSUME RoomInit PROVE RoomInv
  <1>1. CallTyped /\ Answer  BY NoCallTyped DEF RoomInit, CallTyped, Answer
  <1>2. RoomFine  BY DEF RoomInit, RoomFine
  <1>3. Counted
    <2>1. consumed \in [Proposals -> Nat] /\ \A p \in Proposals : consumed[p] = 0  BY DEF RoomInit
    <2> QED BY <2>1 DEF RoomInit, Counted
  <1>4. Surroundings  BY DEF RoomInit, Surroundings
  <1> QED BY <1>1, <1>2, <1>3, <1>4 DEF RoomInv

\* What the host's window sends is a command that waits for its answer.
LEMMA SentTyped ==
  ASSUME NEW cmd \in Commands, NEW arg \in Actors \cup Frames \cup Proposals, Send(cmd, arg),
         cmd = "publish" => arg \in Frames, cmd \in {"approve", "consume"} => arg \in Proposals
  PROVE  CallTyped' /\ Answer'
  <1>1. /\ call' \in Calls /\ call'.cmd = cmd /\ call'.arg = arg /\ call'.at = "sent"
    BY NoCallTyped DEF Send, Calls
  <1> QED BY <1>1 DEF CallTyped, Answer

\* Nothing the window does on its own touches the room: pressing a button, or
\* publishing, closing and polling as time goes on, only sends a command.
LEMMA WindowInv == ASSUME RoomInv, Buttons \/ WindowPolls PROVE RoomInv'
  <1>1. Quiet /\ consent' \in BOOLEAN /\ joined' \in BOOLEAN
    BY DEF Buttons, WindowPolls, RoomInv, Surroundings, ShareSession, JoinRoom, LeaveRoom,
           RevokeControl, GrantControl, HostApproves, ConsumeRequest
  <1>2. RoomFine' /\ Counted' /\ Surroundings'
    BY <1>1 DEF RoomInv, RoomFine, Counted, Surroundings, Quiet, identities
  <1>3. CallTyped' /\ Answer'
    <2>1. Host \in Actors /\ Members \subseteq Actors  BY DEF Actors
    <2>2. CASE ShareSession  BY <2>1, <2>2, SentTyped DEF ShareSession, Commands
    <2>3. CASE JoinRoom  BY <2>1, <2>3, SentTyped DEF JoinRoom, Commands
    <2>4. CASE LeaveRoom  BY <2>1, <2>4, SentTyped DEF LeaveRoom, Commands
    <2>5. CASE RevokeControl  BY <2>1, <2>5, SentTyped DEF RevokeControl, Commands
    <2>6. ASSUME NEW a \in Members, GrantControl(a) PROVE CallTyped' /\ Answer'
      BY <2>1, <2>6, SentTyped DEF GrantControl, Commands
    <2>7. ASSUME NEW p \in Proposals, HostApproves(p) \/ ConsumeRequest(p)
          PROVE  CallTyped' /\ Answer'
      BY <2>7, SentTyped DEF HostApproves, ConsumeRequest, Commands
    <2>8. CASE WindowPolls  BY <2>1, <2>8, SentTyped DEF WindowPolls, Commands
    <2> QED BY <2>2, <2>3, <2>4, <2>5, <2>6, <2>7, <2>8 DEF Buttons
  <1> QED BY <1>2, <1>3 DEF RoomInv

\* A lease the window still waits to hear about is either there as before or gone.
LEMMA AnswerStays ==
  ASSUME RoomInv, call' = call, consumed' = consumed,
         room' # NoRoom => room # NoRoom /\ room'.lease \in {room.lease, NoLease}
  PROVE  Answer'
  <1>1. NoLease.gen = 0  BY DEF NoLease
  <1> QED BY <1>1 DEF RoomInv, Answer

\* Dropping what ran out and removing an actor never give anybody the lease.
LEMMA LeaseShrinks ==
  ASSUME NEW r, NEW a, r \in Rooms
  PROVE  /\ Refreshed(r).lease \in {r.lease, NoLease} /\ Departed(r, a).lease \in {r.lease, NoLease}
         /\ Refreshed(r) \in Rooms /\ Refreshed(r).members = r.members
  <1>1. WithoutLease(r).lease = NoLease /\ WithoutLease(r).members = r.members  BY DEF WithoutLease, Rooms
  <1>2. WithoutLease(r) \in Rooms
    <2>1. r.gen + 1 \in Nat /\ NoLease \in Leases  BY DEF Rooms, Leases
    <2> QED BY <2>1, NothingAsked DEF WithoutLease, Rooms
  <1>3. Departed(r, a).lease \in {r.lease, NoLease}
    <2>1. CASE r.lease # NoLease /\ r.lease.actor = a  BY <1>1, <2>1 DEF Departed
    <2>2. CASE ~(r.lease # NoLease /\ r.lease.actor = a)  BY <2>2 DEF Departed, Rooms
    <2> QED BY <2>1, <2>2
  <1> QED BY <1>1, <1>2, <1>3 DEF Refreshed

\* What a member asks for is done on the room as it is after what ran out is dropped.
LEMMA MemberInv == ASSUME RoomInv, NEW a \in Members, Member(a) PROVE RoomInv'
  <1> DEFINE r == Refreshed(room)
  <1>1. room # NoRoom /\ a \in room.members /\ Elsewhere
    BY DEF Member, MemberPolls, MemberLeaves, Propose, MemberApproves, InRoom
  <1>2. Good(room, voided, made, consumed) /\ room \in Rooms /\ a # Host
    BY <1>1, RoomAssumption DEF RoomInv, RoomFine, Good
  <1>3. Good(r, voided, made, consumed) /\ r.members = room.members /\ r \in Rooms
    BY <1>2, RefreshedGood, LeaseShrinks
  <1>4. /\ tokens' = tokens /\ bound' = bound /\ screen' = screen /\ selected' = selected
        /\ consent' = consent /\ joined' = joined /\ call' = call /\ used' = used
        /\ consumed' = consumed
    BY <1>1 DEF Elsewhere, identities, window
  <1>5. CallTyped'  BY <1>4 DEF RoomInv, CallTyped
  <1>6. r.lease \in {room.lease, NoLease}  BY <1>2, LeaseShrinks
  <1> HIDE DEF r
  <1>7. CASE MemberPolls(a)
    <2>1. room' = r /\ made' = made /\ voided' = voided  BY <1>7 DEF MemberPolls, r
    <2>2. RoomFine' /\ Counted' /\ Surroundings'
      BY <1>3, <1>4, <2>1 DEF RoomInv, RoomFine, Counted, Surroundings
    <2> QED BY <1>1, <1>4, <1>5, <1>6, <2>1, <2>2, AnswerStays DEF RoomInv
  <1>8. CASE MemberLeaves(a)
    <2>1. /\ voided' = voided \cup VotesOf(a) /\ made' = made
          /\ room' = [Departed(r, a) EXCEPT !.members = @ \ {a}]
      BY <1>8 DEF MemberLeaves, r
    <2>2. VotesOf(a) \subseteq Actors \X Proposals /\ \A q \in VotesOf(a) : q[1] = a
      BY DEF VotesOf, Actors
    <2>3. Good(room', voided', made, consumed)  BY <1>2, <1>3, <2>1, <2>2, DepartedGood
    <2>4. room'.lease \in {r.lease, NoLease}
      <3>1. Good(Departed(r, a), voided', made, consumed)  BY <1>3, <2>1, <2>2, DepartedGood
      <3>2. Departed(r, a) \in Rooms  BY <3>1 DEF Good
      <3>3. room'.lease = Departed(r, a).lease  BY <2>1, <3>2 DEF Rooms
      <3> QED BY <1>3, <3>3, LeaseShrinks
    <2>5. RoomFine' /\ Counted' /\ Surroundings'
      BY <1>4, <2>1, <2>2, <2>3 DEF RoomInv, RoomFine, Counted, Surroundings
    <2> QED BY <1>1, <1>4, <1>5, <1>6, <2>4, <2>5, AnswerStays DEF RoomInv
  <1>9. ASSUME NEW p \in Proposals, Propose(a, p) PROVE RoomInv'
    <2> DEFINE ask == [NoAsk EXCEPT !.gen = r.gen, !.frame = r.frame]
    <2>1. /\ room' = [r EXCEPT !.asks[p] = ask] /\ made' = made \cup {p} /\ voided' = voided
          /\ p \notin made /\ r.lease # NoLease /\ r.frame # Blank
      BY <1>9 DEF Propose, r
    <2>2. consumed[p] # 0 => p \in made  BY DEF RoomInv, Counted
    <2>3. Good(room', voided, made \cup {p}, consumed)  BY <1>3, <2>1, <2>2, ProposeGood
    <2> HIDE DEF ask
    <2>4. room'.lease = r.lease  BY <1>3, <2>1 DEF Rooms
    <2>5. RoomFine' /\ Counted' /\ Surroundings'
      BY <1>4, <2>1, <2>3 DEF RoomInv, RoomFine, Counted, Surroundings
    <2> QED BY <1>1, <1>4, <1>5, <1>6, <2>4, <2>5, AnswerStays DEF RoomInv
  <1>10. ASSUME NEW p \in Proposals, MemberApproves(a, p) PROVE RoomInv'
    <2>1. /\ room' = [r EXCEPT !.asks[p].votes = @ \cup {a}] /\ made' = made
          /\ voided' = voided \ {<<a, p>>} /\ r.asks[p] # NoAsk
      BY <1>10 DEF MemberApproves, Live, r
    <2>2. Good(room', voided', made, consumed)  BY <1>1, <1>3, <2>1, ApproveGood
    <2>3. room'.lease = r.lease  BY <1>3, <2>1 DEF Rooms
    <2>4. RoomFine' /\ Counted' /\ Surroundings'
      BY <1>4, <2>1, <2>2 DEF RoomInv, RoomFine, Counted, Surroundings
    <2> QED BY <1>1, <1>4, <1>5, <1>6, <2>3, <2>4, AnswerStays DEF RoomInv
  <1> QED BY <1>7, <1>8, <1>9, <1>10 DEF Member
\* A refused command, or an answer that is lost, leaves the window without one.
LEMMA RefuseInv == ASSUME RoomInv, Refuse, Aside PROVE RoomInv'
  <1>1. CallTyped' /\ Answer'  BY NoCallTyped DEF Refuse, Stop
  <1> QED BY <1>1 DEF RoomInv, Refuse, Aside, Stop, RoomFine, Counted, Surroundings, identities

\* A command that changes the room alone may leave it as it likes, in order.
LEMMA ReplyInv ==
  ASSUME RoomInv, NEW r, Reply(r), Kept, Aside,
         r # NoRoom => Good(r, voided, made, consumed)
  PROVE  RoomInv'
  <1>1. room' = r /\ call' = NoCall /\ joined' \in BOOLEAN /\ consent' \in BOOLEAN
    BY DEF Reply, Take, Stop, RoomInv, Surroundings
  <1>2. CallTyped' /\ Answer'  BY <1>1, NoCallTyped
  <1>3. RoomFine'  BY <1>1 DEF RoomFine, Kept, Aside
  <1> QED BY <1>1, <1>2, <1>3 DEF RoomInv, Kept, Aside, Counted, Surroundings, identities

\* The same for those the server refuses where there is no room.
LEMMA ServedInv ==
  ASSUME RoomInv, NEW r, Served(r), Kept, Aside,
         room # NoRoom /\ r # NoRoom => Good(r, voided, made, consumed)
  PROVE  RoomInv'
  BY ReplyInv, RefuseInv DEF Served

\* The commands of the host, at the server.
LEMMA ServerInv == ASSUME RoomInv, Server PROVE RoomInv'
  <1> DEFINE r == Refreshed(room)
             p == call.arg
  <1>1. room # NoRoom => /\ Good(room, voided, made, consumed) /\ Good(r, voided, made, consumed)
                         /\ r \in Rooms /\ r.members = room.members /\ r.members \subseteq Members
    BY RefreshedGood DEF RoomInv, RoomFine, Good, Rooms
  <1>2. CASE ServeCreate
    <2>1. Good(NewRoom, voided, made, consumed)  BY NewRoomGood
    <2> QED BY <1>2, <2>1, ReplyInv, RefuseInv DEF ServeCreate, Kept
  <1>3. CASE ServePoll  BY <1>1, <1>3, ServedInv DEF ServePoll
  <1>4. CASE ServeClose  BY <1>4, ServedInv DEF ServeClose
  <1>5. CASE ServeRevoke
    <2>1. room # NoRoom => Good(WithoutLease(r), voided, made, consumed)
      BY <1>1, WithoutLeaseGood
    <2> QED BY <1>5, <2>1, ServedInv DEF ServeRevoke
  <1>6. CASE ServePublish
    <2> DEFINE s == [r EXCEPT !.frame = p, !.asks = IF r.frame \in {Blank, p} THEN @ ELSE None]
    <2>1. p \in Frames  BY <1>6 DEF ServePublish, CallIs, RoomInv, CallTyped
    <2>2. room # NoRoom => Good(s, voided, made, consumed)
      BY <1>1, <2>1, PublishGood
    <2>3. Served(s) /\ Kept /\ Aside  BY <1>6 DEF ServePublish
    <2> HIDE DEF s
    <2> QED BY <2>2, <2>3, ServedInv
  <1>7. CASE ServeGrant
    <2> DEFINE s == [r EXCEPT !.gen = r.gen + 1, !.asks = None,
                              !.lease = [actor |-> p, gen |-> r.gen + 1, over |-> FALSE]]
    <2>1. Kept /\ Aside  BY <1>7 DEF ServeGrant
    <2>2. CASE room # NoRoom /\ HasToken(Host) /\ p \in r.members /\ CanOperate(p)
      <3>1. Reply(s)  BY <1>7, <2>2 DEF ServeGrant
      <3>2. p \in Members  BY <1>1, <2>2
      <3>3. Good(s, voided, made, consumed)  BY <1>1, <2>2, <3>2, GrantGood
      <3> HIDE DEF s
      <3> QED BY <2>1, <3>1, <3>3, ReplyInv
    <2>3. CASE ~(room # NoRoom /\ HasToken(Host) /\ p \in r.members /\ CanOperate(p))
      BY <1>7, <2>1, <2>3, RefuseInv DEF ServeGrant, Kept
    <2> QED BY <2>2, <2>3
  <1>8. CASE ServeApprove
    <2> DEFINE s == [r EXCEPT !.asks[p].votes = @ \cup {Host}]
               go == room # NoRoom /\ HasToken(Host) /\ p \in Live(r) /\ ~r.asks[p].consumed
    <2>1. UNCHANGED consumed /\ Aside  BY <1>8 DEF ServeApprove
    <2>2. CASE go
      <3>1. Reply(s) /\ voided' = voided \ {<<Host, p>>}  BY <1>8, <2>2 DEF ServeApprove
      <3>2. p \in Proposals /\ r.asks[p] # NoAsk  BY <2>2 DEF Live
      <3>3. Good(s, voided', made, consumed)  BY <1>1, <2>2, <3>1, <3>2, ApproveGood
      <3> HIDE DEF s
      <3>4. room' = s /\ call' = NoCall /\ joined' \in BOOLEAN /\ consent' \in BOOLEAN
        BY <3>1 DEF Reply, Take, Stop, RoomInv, Surroundings
      <3>5. CallTyped' /\ Answer'  BY <3>4, NoCallTyped
      <3>6. RoomFine'  BY <2>1, <3>3, <3>4 DEF RoomFine, Aside
      <3> QED BY <2>1, <3>1, <3>4, <3>5, <3>6 DEF RoomInv, Aside, Counted, Surroundings, identities
    <2>3. CASE ~go  BY <1>8, <2>1, <2>3, RefuseInv DEF ServeApprove
    <2> QED BY <2>2, <2>3
  <1>9. CASE ServeConsume
    <2> DEFINE s == [r EXCEPT !.asks[p].consumed = TRUE]
               go == room # NoRoom /\ HasToken(Host) /\ Agreed(r, p)
    <2>1. UNCHANGED voided /\ Aside  BY <1>9 DEF ServeConsume
    <2>2. p \in Proposals /\ call.cmd = "consume"
      BY <1>9 DEF ServeConsume, CallIs, RoomInv, CallTyped
    <2>3. CASE go
      <3>1. /\ room' = s /\ call' = [call EXCEPT !.at = "answered", !.ask = r.asks[p]]
            /\ consumed' = [consumed EXCEPT ![p] = @ + 1] /\ UNCHANGED <<consent, joined>>
        BY <1>9, <2>3 DEF ServeConsume
      <3>2. /\ r.asks[p] # NoAsk /\ ~r.asks[p].consumed /\ Cardinality(r.asks[p].votes) >= 2
            /\ ~r.lease.over
        BY <2>3 DEF Agreed
      <3>3. consumed \in [Proposals -> Nat]  BY DEF RoomInv, Counted
      <3>4. GoodAsk(r, p, voided, made, consumed)  BY <1>1, <2>2, <2>3, <3>2 DEF Good
      <3>5. consumed[p] = 0 /\ p \in made /\ r.asks[p].gen # 0 /\ r.asks[p] \in Asks
        BY <1>1, <2>2, <2>3, <3>2, <3>4 DEF GoodAsk, Rooms
      <3>6. Good(s, voided, made, consumed')  BY <1>1, <2>2, <2>3, <3>1, <3>2, <3>3, ConsumeGood
      <3>7. s.lease = r.lease  BY <1>1, <2>3 DEF Rooms
      <3> HIDE DEF s
      <3>8. RoomFine'  BY <2>1, <3>1, <3>6 DEF RoomFine, Aside
      <3>9. /\ call' \in Calls /\ call'.cmd = "consume" /\ call'.arg = p /\ call'.at = "answered"
            /\ call'.ask = r.asks[p]
        BY <2>2, <3>1, <3>5 DEF RoomInv, CallTyped, Calls
      <3>10. consumed'[p] = 1 /\ \A q \in Proposals : q # p => consumed'[q] = consumed[q]
        BY <2>2, <3>1, <3>3, <3>5
      <3>11. CallTyped' /\ Answer'
        BY <2>2, <3>1, <3>2, <3>5, <3>7, <3>9, <3>10 DEF CallTyped, Answer
      <3>12. Counted'  BY <2>1, <3>1, <3>3, <3>5, <3>10 DEF RoomInv, Counted, Aside
      <3> QED BY <2>1, <3>1, <3>8, <3>11, <3>12 DEF RoomInv, Aside, Surroundings, identities
    <2>4. CASE ~go  BY <1>9, <2>1, <2>4, RefuseInv DEF ServeConsume
    <2> QED BY <2>3, <2>4
  <1> QED BY <1>2, <1>3, <1>4, <1>5, <1>6, <1>7, <1>8, <1>9 DEF Server

\* An answer that is lost or used, and a program that is closed and opened again.
LEMMA EndInv == ASSUME RoomInv, LoseCall \/ TakeConsumed \/ RestartWindow PROVE RoomInv'
  <1>1. Ended /\ call' = NoCall /\ consent' \in BOOLEAN /\ joined' \in BOOLEAN
    BY DEF LoseCall, TakeConsumed, RestartWindow, Stop, RoomInv, Surroundings
  <1>2. used' \subseteq made
    <2>1. CASE TakeConsumed
      <3>1. call.arg \in Proposals /\ consumed[call.arg] = 1
        BY <2>1 DEF TakeConsumed, RoomInv, CallTyped, Answer
      <3>2. used' \subseteq used \cup {call.arg}  BY <2>1 DEF TakeConsumed
      <3> QED BY <3>1, <3>2 DEF RoomInv, Counted, Surroundings
    <2>2. CASE LoseCall \/ RestartWindow
      BY <2>2 DEF LoseCall, RestartWindow, RoomInv, Surroundings
    <2> QED BY <2>1, <2>2
  <1>3. CallTyped' /\ Answer'  BY <1>1, NoCallTyped
  <1> QED BY <1>1, <1>2, <1>3 DEF Ended, RoomInv, RoomFine, Counted, Surroundings, identities

\* A token is revoked: whoever bore it is gone from the votes and from control.
LEMMA RevokeInv == ASSUME RoomInv, NEW t \in Tokens, RevokeToken(t) PROVE RoomInv'
  <1> DEFINE a == Bearer[t]
  <1>1. /\ tokens' \subseteq tokens /\ voided' = voided \cup VotesOf(a) /\ bound' = bound
        /\ made' = made /\ screen' = screen /\ selected' = selected /\ consent' = consent
        /\ joined' = joined /\ call' = call /\ used' = used /\ consumed' = consumed
        /\ room' = IF room = NoRoom \/ a = Host THEN NoRoom ELSE Departed(room, a)
    BY DEF RevokeToken, window
  <1>2. a \in Actors  BY RoomAssumption
  <1> HIDE DEF a
  <1>3. VotesOf(a) \subseteq Actors \X Proposals /\ \A q \in VotesOf(a) : q[1] = a
    BY <1>2 DEF VotesOf
  <1>4. RoomFine'  BY <1>1, <1>3, DepartedGood DEF RoomInv, RoomFine
  <1>5. room' # NoRoom => room # NoRoom /\ room'.lease \in {room.lease, NoLease}
    BY <1>1, LeaseShrinks DEF RoomInv, RoomFine, Good
  <1>6. Answer'  BY <1>1, <1>5, AnswerStays
  <1> QED BY <1>1, <1>3, <1>4, <1>6 DEF RoomInv, CallTyped, Counted, Surroundings

\* A lease runs out where it is held, and where an answer that cites it waits.
LEMMA LapseInv == ASSUME RoomInv, LeaseLapses PROVE RoomInv'
  <1> DEFINE cited(g) == call.at = "answered" /\ call.cmd = "consume" /\ call.ask.gen = g
  <1>1. /\ UNCHANGED <<identities, made, screen, selected, consent, joined, used, consumed, voided>>
        /\ call' \in Calls /\ call'.cmd = call.cmd /\ call'.arg = call.arg /\ call'.at = call.at
        /\ call'.ask = call.ask
    <2>1. call \in Calls  BY DEF RoomInv, CallTyped
    <2>2. \A g : cited(g) \in BOOLEAN  OBVIOUS
    <2> QED BY <2>1, <2>2 DEF LeaseLapses, Calls
  <1>2. CASE /\ room # NoRoom /\ ~room.lease.over /\ room' = [room EXCEPT !.lease.over = TRUE]
             /\ call' = [call EXCEPT !.over = @ \/ cited(room.lease.gen)]
    <2>1. Good(room, voided, made, consumed) /\ room.lease # NoLease
      BY <1>2 DEF RoomInv, RoomFine, NoLease
    <2>2. Good(room', voided', made', consumed')  BY <1>1, <1>2, <2>1, LapseGood
    <2>3. room'.lease.gen = room.lease.gen
      <3>1. room \in Rooms /\ room.lease \in Leases  BY <2>1 DEF Good, Rooms
      <3>2. room'.lease = [room.lease EXCEPT !.over = TRUE]  BY <1>2, <3>1 DEF Rooms
      <3> QED BY <2>1, <3>1, <3>2 DEF Leases
    <2>4. cited(room.lease.gen) => call'.over
      BY <1>2 DEF RoomInv, CallTyped, Calls
    <2>5. Answer'  BY <1>1, <2>3, <2>4 DEF RoomInv, Answer
    <2> QED BY <1>1, <2>2, <2>5 DEF RoomInv, RoomFine, CallTyped, Counted, Surroundings, identities
  <1>3. CASE room' = room /\ call' = [call EXCEPT !.over = TRUE]
    <2>1. call'.over  BY <1>3 DEF RoomInv, CallTyped, Calls
    <2>2. Answer'  BY <1>1, <2>1 DEF RoomInv, Answer
    <2> QED BY <1>1, <1>3, <2>2 DEF RoomInv, RoomFine, CallTyped, Counted, Surroundings, identities
  <1> QED BY <1>2, <1>3 DEF LeaseLapses

\* Every step keeps the room in order and the answer worth what it says.
LEMMA RoomStep == ASSUME RoomInv, [RoomNext]_roomVars PROVE RoomInv'
  <1>1. CASE Around
    <2>1. ASSUME NEW t \in Tokens, RevokeToken(t) PROVE RoomInv'  BY <2>1, RevokeInv
    <2>2. CASE LeaseLapses  BY <2>2, LapseInv
    <2>3. ASSUME NEW a \in Federated, Rebind(a) PROVE RoomInv'
      <3>1. bound' \subseteq Federated  BY <2>3 DEF Rebind, RoomInv, Surroundings
      <3> QED BY <2>3, <3>1 DEF Rebind, RoomInv, RoomFine, CallTyped, Answer, Counted, Surroundings,
              window
    <2>4. CASE RoomLapses
      BY <2>4 DEF RoomLapses, RoomInv, RoomFine, CallTyped, Answer, Counted, Surroundings, identities,
              window
    <2>5. CASE Desktop
      <3>1. screen' \in Frames /\ selected' \in BOOLEAN  BY <2>5 DEF Desktop, RoomInv, Surroundings
      <3> QED BY <2>5, <3>1 DEF Desktop, RoomInv, RoomFine, CallTyped, Answer, Counted, Surroundings,
              identities
    <2> QED BY <1>1, <2>1, <2>2, <2>3, <2>4, <2>5 DEF Around
  <1>2. CASE UNCHANGED roomVars
    BY <1>2 DEF roomVars, RoomInv, RoomFine, CallTyped, Answer, Counted, Surroundings, identities, window
  <1> QED BY <1>1, <1>2, MemberInv, WindowInv, EndInv, ServerInv DEF RoomNext
\* The invariant holds in every state a shared session can be in.
THEOREM RoomCorrect == RoomSpec => []RoomInv
  <1>1. RoomInv /\ [RoomNext]_roomVars => RoomInv'  BY RoomStep
  <1> QED BY <1>1, RoomInitInv, PTL DEF RoomSpec

\* Whatever is proposed is for the frame the room shows and for a lease somebody
\* holds: collaboration_session.rs voids it with either of them.
THEOREM ProposalsBelongToNow == RoomSpec => []ProposalsAreCurrent
  <1>1. RoomInv => ProposalsAreCurrent
    BY DEF RoomInv, RoomFine, Good, GoodAsk, ProposalsAreCurrent, Live
  <1> QED BY <1>1, RoomCorrect, PTL

\* No vote of one who left or lost a token since is ever counted.
THEOREM VotesAreStanding == RoomSpec => []VotesStand
  <1>1. RoomInv => VotesStand
    BY DEF RoomInv, RoomFine, Good, GoodAsk, VotesStand, Live
  <1> QED BY <1>1, RoomCorrect, PTL

\* No request is consumed twice, whatever answers get lost or windows restart.
THEOREM ConsumedAtMostOnce == RoomSpec => []ConsumedOnce
  <1>1. RoomInv => ConsumedOnce  BY DEF RoomInv, Counted, ConsumedOnce
  <1> QED BY <1>1, RoomCorrect, PTL

\* Input reaches the session for a request that two agreed on, that was consumed
\* once, and whose frame and lease still are what they were agreed for.
THEOREM InputNeedsAgreement == RoomSpec => InputIsAgreed
  <1> DEFINE agreed == \A p \in used' \ used :
               /\ consumed[p] = 1 /\ Cardinality(call.ask.votes) >= 2 /\ screen = call.ask.frame
               /\ consent /\ selected
               /\ (room # NoRoom /\ room.lease.gen = call.ask.gen) => ~room.lease.over
  <1>1. RoomInv /\ [RoomNext]_roomVars => [agreed]_roomVars
    <2> SUFFICES ASSUME RoomInv, RoomNext, NEW p \in used' \ used PROVE
          /\ consumed[p] = 1 /\ Cardinality(call.ask.votes) >= 2 /\ screen = call.ask.frame
          /\ consent /\ selected
          /\ (room # NoRoom /\ room.lease.gen = call.ask.gen) => ~room.lease.over
      OBVIOUS
    <2>1. TakeConsumed
      <3>1. ASSUME NEW a \in Members, Member(a) PROVE used' = used
        BY <3>1 DEF Member, MemberPolls, MemberLeaves, Propose, MemberApproves, Elsewhere
      <3>2. CASE Buttons \/ WindowPolls
        BY <3>2 DEF Buttons, WindowPolls, ShareSession, JoinRoom, LeaveRoom, RevokeControl,
                    GrantControl, HostApproves, ConsumeRequest, Quiet
      <3>3. CASE Server
        BY <3>3 DEF Server, ServeCreate, ServePoll, ServeClose, ServeRevoke, ServePublish,
                    ServeGrant, ServeApprove, ServeConsume, Aside
      <3>4. CASE Around
        BY <3>4 DEF Around, RevokeToken, Rebind, LeaseLapses, RoomLapses, Desktop
      <3>5. CASE LoseCall \/ RestartWindow  BY <3>5 DEF LoseCall, RestartWindow
      <3> QED BY <3>1, <3>2, <3>3, <3>4, <3>5 DEF RoomNext
    <2>2. p = call.arg /\ consent /\ selected /\ ~call.over /\ call.ask.frame = screen
      BY <2>1 DEF TakeConsumed
    <2>3. Answer /\ call.at = "answered"  BY <2>1 DEF TakeConsumed, RoomInv
    <2> QED BY <2>2, <2>3 DEF Answer
  <1>2. RoomInv /\ [RoomNext]_roomVars => RoomInv'  BY RoomStep
  <1> QED BY <1>1, <1>2, RoomInitInv, PTL DEF RoomSpec, InputIsAgreed
================================================================================
