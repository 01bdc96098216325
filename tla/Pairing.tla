------------------------------ MODULE Pairing ------------------------------
(***************************************************************************)
(* Whose card is it?  The pairing task of the card registers a one-time    *)
(* code and nonce (a challenge) and polls until an account has claimed     *)
(* them; the uploader works with the token it gets and starts the next     *)
(* challenge when the server refuses it (401, 403).  The user opens and    *)
(* leaves the pairing page, the account claims and unbinds, Wi-Fi comes    *)
(* and goes, requests and answers are lost or late, power fails.           *)
(***************************************************************************)
EXTENDS Integers, FiniteSets

CONSTANTS
    Accounts,    \* the users of the server
    MaxVisits,   \* how often the pairing page is opened
    MaxUnbinds,  \* how often an account gives the card up
    FaultKinds,  \* "lost" (an exchange), "link", "slow" (a challenge runs out), "power", "nvs"
    MaxFaults,   \* how often something goes wrong
    NoOne        \* no account

ASSUME PairingAssumption ==
    /\ NoOne \notin Accounts
    /\ MaxVisits \in Nat /\ MaxUnbinds \in Nat /\ MaxFaults \in Nat
    /\ FaultKinds \subseteq {"lost", "link", "slow", "power", "nvs"}

VARIABLES
    device,   \* the server's row of the card: its owner and the binding generation
    rows,     \* device_pairings: the state of every challenge that was registered
    lapsed,   \* the challenges past their expires_at
    tokens,   \* the token that is not revoked, and how many were issued
    card,     \* what the card has in memory
    nvs,      \* what it keeps without power: the binding
    link,     \* its Wi-Fi
    ask,      \* the exchange of the pairing task
    late,     \* requests of that task it no longer waits for
    call,     \* the authenticated request of the uploader
    stamped,  \* binding generation and account of every recording begun
    drawn,    \* how many challenges were drawn
    visits, unbinds, faults  \* how often the user and the environment did something

vars == <<device, rows, lapsed, tokens, card, nvs, link, ask, late, call, stamped, drawn, visits, unbinds, faults>>

serverVars == <<device, rows, lapsed, tokens>>
counters == <<visits, unbinds, faults>>

Fault(kind) == kind \in FaultKinds /\ faults < MaxFaults /\ faults' = faults + 1

NoBinding == [token |-> 0, account |-> NoOne, generation |-> 0]
NoAsk == [step |-> "none", nonce |-> 0, reply |-> "none", binding |-> NoBinding]
NoCall == [step |-> "none", token |-> 0]
Bound == card.binding.token # 0

-----------------------------------------------------------------------------
(* The server. *)

State(n) == rows[n]
Active == {"pending", "claimed", "delivered"}

(* authenticate: a token that is neither revoked nor of another binding.   *)
Accepts(token) ==
    token # 0 /\ token = tokens.live /\ device.owner # NoOne /\ tokens.generation = device.generation

(* start_pairing: a nonce it knows gets its state again, a new one takes   *)
(* the place of whatever was pending.                                      *)
Registered(n) ==
    [m \in DOMAIN rows |->
        IF m = n THEN "pending" ELSE IF rows[m] = "pending" THEN "superseded" ELSE rows[m]]
StartReply(n) == IF State(n) # "unknown" /\ (n \in lapsed \/ State(n) \notin Active) THEN "restart" ELSE "registered"
ServeStart(n) ==
    /\ rows' = IF State(n) = "unknown" THEN Registered(n) ELSE rows
    /\ UNCHANGED <<device, lapsed, tokens>>

(* pairing_status: a claimed challenge is good for a token as often as it   *)
(* is asked, each revoking the one before.                                 *)
Grants(n) == n \notin lapsed /\ State(n) \in {"claimed", "delivered"}
Granted == [token |-> tokens.issued + 1, account |-> device.owner, generation |-> device.generation]
StatusReply(n) ==
    IF Grants(n) THEN "bound" ELSE IF n \notin lapsed /\ State(n) = "pending" THEN "pending" ELSE "restart"
ServeStatus(n) ==
    /\ IF Grants(n)
       THEN /\ rows' = [rows EXCEPT ![n] = "delivered"]
            /\ tokens' = [issued |-> tokens.issued + 1, live |-> tokens.issued + 1, generation |-> device.generation]
       ELSE UNCHANGED <<rows, tokens>>
    /\ UNCHANGED <<device, lapsed>>

(* Wrong variant of MayClaim: a card that has an owner changes hands.       *)
MayClaimAny(a) == TRUE
MayClaim(a) == device.owner \in {NoOne, a}
Claim(a, n) ==
    /\ n \in DOMAIN rows /\ State(n) = "pending" /\ n \notin lapsed
    /\ MayClaim(a)
    /\ device' = [owner |-> a,
                  generation |-> device.generation + (IF device.owner = NoOne THEN 1 ELSE 0)]
    /\ rows' = [rows EXCEPT ![n] = "claimed"]
    /\ UNCHANGED <<lapsed, tokens, card, nvs, link, ask, late, call, stamped, drawn, counters>>

Freed == [owner |-> NoOne, generation |-> device.generation + 1]
UnboundRows == [n \in DOMAIN rows |-> IF State(n) \in Active THEN "revoked" ELSE State(n)]
Unbind ==
    /\ unbinds < MaxUnbinds /\ unbinds' = unbinds + 1
    /\ device.owner # NoOne
    /\ device' = Freed
    /\ tokens' = [tokens EXCEPT !.live = 0]
    /\ rows' = UnboundRows
    /\ UNCHANGED <<lapsed, card, nvs, link, ask, late, call, stamped, drawn, visits, faults>>

(* Ten minutes are over (_expire_pairings).                                *)
Expire(n) ==
    /\ Fault("slow")
    /\ n \in DOMAIN rows \ lapsed /\ State(n) # "unknown"
    /\ lapsed' = lapsed \union {n}
    /\ UNCHANGED <<device, rows, tokens, card, nvs, link, ask, late, call, stamped, drawn, visits, unbinds>>

-----------------------------------------------------------------------------
(* The challenge of the card. *)

(* random_digits and random_hex: never a code or a nonce that was used.    *)
Draw(c) == [c EXCEPT !.nonce = drawn + 1, !.registered = FALSE]
Drawn == drawn' = drawn + 1 /\ rows' = [n \in 1 .. drawn + 1 |-> IF n > drawn THEN "unknown" ELSE rows[n]]
NotDrawn == UNCHANGED <<drawn, rows>>

(* net_enter_pairing; when the access point does not start, the page shows *)
(* the error and the challenge stays as requested as it was.               *)
EnterPairing ==
    /\ visits < MaxVisits /\ visits' = visits + 1
    /\ ~link.portal
    /\ Drawn
    /\ \/ /\ card' = [Draw(card) EXCEPT !.requested = TRUE]
          /\ link' = [link EXCEPT !.portal = TRUE]
          /\ UNCHANGED faults
       \/ /\ Fault("nvs")
          /\ card' = Draw(card)
          /\ UNCHANGED link
    /\ UNCHANGED <<device, lapsed, tokens, nvs, ask, late, call, stamped, unbinds>>

(* net_exit_pairing.                                                       *)
ExitPairing ==
    /\ link.portal \/ card.requested
    /\ card' = [card EXCEPT !.requested = FALSE]
    /\ link' = [link EXCEPT !.portal = FALSE, !.pending = FALSE,
                            !.online = @ /\ link.known /\ ~link.pending,
                            !.checked = @ /\ link.known /\ ~link.pending]
    /\ UNCHANGED <<serverVars, nvs, ask, late, call, stamped, drawn, counters>>

(* The form of the portal: the network it names is tried (portal_provision,*)
(* start_sta_candidate) and kept when it gives an address (wifi_event).    *)
(* When it cannot be saved the card is online with it all the same, and it *)
(* stays a candidate: it is saved with the next address, or given up.      *)
Provision ==
    /\ link.portal /\ (link.pending => link.online)
    /\ link' = [link EXCEPT !.pending = TRUE, !.online = FALSE, !.checked = FALSE]
    /\ UNCHANGED <<serverVars, card, nvs, ask, late, call, stamped, drawn, counters>>
CandidateUp ==
    /\ link.pending /\ ~link.online
    /\ \/ /\ link' = [link EXCEPT !.pending = FALSE, !.online = TRUE, !.known = TRUE]
          /\ card' = [card EXCEPT !.requested = ~Bound]
          /\ UNCHANGED faults
       \/ /\ Fault("nvs")
          /\ link' = [link EXCEPT !.online = TRUE]
          /\ UNCHANGED card
    /\ UNCHANGED <<serverVars, nvs, ask, late, call, stamped, drawn, visits, unbinds>>
CandidateFails ==
    /\ link.pending /\ ~link.online
    /\ link' = [link EXCEPT !.pending = FALSE]
    /\ UNCHANGED <<serverVars, card, nvs, ask, late, call, stamped, drawn, counters>>

(* The selector tries the known networks, but not during a challenge.      *)
MayReconnect == link.known /\ ~link.online /\ ~link.pending /\ ~card.requested
Reconnect ==
    /\ MayReconnect
    /\ link' = [link EXCEPT !.online = TRUE]
    /\ UNCHANGED <<serverVars, card, nvs, ask, late, call, stamped, drawn, counters>>
LinkDrops ==
    /\ Fault("link")
    /\ link.online
    /\ link' = [link EXCEPT !.online = FALSE, !.checked = FALSE]
    /\ UNCHANGED <<serverVars, card, nvs, ask, late, call, stamped, drawn, visits, unbinds>>

-----------------------------------------------------------------------------
(* The pairing task: one exchange at a time. *)

(* build_info_exchange, whenever the card is newly online.                 *)
CheckContract ==
    /\ ask = NoAsk
    /\ link.online /\ ~link.checked
    /\ link' = [link EXCEPT !.checked = TRUE]
    /\ UNCHANGED <<serverVars, card, nvs, ask, late, call, stamped, drawn, counters>>

Ask ==
    /\ ask = NoAsk
    /\ link.online /\ link.checked /\ card.requested
    /\ ask' = [NoAsk EXCEPT !.step = IF card.registered THEN "status" ELSE "start", !.nonce = card.nonce]
    /\ UNCHANGED <<serverVars, card, nvs, link, late, call, stamped, drawn, counters>>

Serve ==
    /\ ask.step \in {"start", "status"} /\ ask.reply = "none"
    /\ IF ask.step = "start"
       THEN ServeStart(ask.nonce) /\ ask' = [ask EXCEPT !.reply = StartReply(ask.nonce)]
       ELSE /\ ServeStatus(ask.nonce)
            /\ ask' = [ask EXCEPT !.reply = StatusReply(ask.nonce),
                                  !.binding = IF Grants(ask.nonce) THEN Granted ELSE NoBinding]
    /\ UNCHANGED <<card, nvs, link, late, call, stamped, drawn, counters>>

(* The task waits ten seconds.  What it did not wait for may still arrive.  *)
TimeOut ==
    /\ Fault("lost")
    /\ ask.step \in {"start", "status"}
    /\ ask' = NoAsk
    /\ late' = IF ask.reply = "none" THEN late \union {[step |-> ask.step, nonce |-> ask.nonce]} ELSE late
    /\ UNCHANGED <<serverVars, card, nvs, link, call, stamped, drawn, visits, unbinds>>
ServeLate ==
    /\ \E r \in late :
       /\ IF r.step = "start" THEN ServeStart(r.nonce) ELSE ServeStatus(r.nonce)
       /\ late' = late \ {r}
    /\ UNCHANGED <<card, nvs, link, ask, call, stamped, drawn, counters>>

(* pair_restart_challenge, also when another challenge was drawn meanwhile.*)
(* Wrong variant of NeedsNew: a challenge that ran out is polled for ever.  *)
NeedsNewUnlessPolled(reply) == reply = "restart" /\ ~card.registered
NeedsNew(reply) == reply = "restart"
Restart ==
    /\ NeedsNew(ask.reply)
    /\ card' = Draw(card)
    /\ Drawn
    /\ ask' = NoAsk
    /\ UNCHANGED <<device, lapsed, tokens, nvs, link, late, call, stamped, counters>>
(* The other answers that bring no token.                                  *)
Hear ==
    /\ ask.reply \in {"registered", "pending", "restart"} /\ ~NeedsNew(ask.reply)
    /\ card' = [card EXCEPT !.registered = @ \/ ask.reply = "registered"]
    /\ ask' = NoAsk
    /\ UNCHANGED <<serverVars, nvs, link, late, call, stamped, drawn, counters>>

(* A token: kept in flash first (save_binding, one commit), then used.     *)
Newer(b) == b.generation > 0 /\ b.generation >= card.binding.generation
Save ==
    /\ ask.reply = "bound"
    /\ \/ /\ Newer(ask.binding)
          /\ nvs' = ask.binding
          /\ ask' = [ask EXCEPT !.step = "saved", !.reply = "saved"]
          /\ UNCHANGED faults
       \/ /\ IF Newer(ask.binding) THEN Fault("nvs") ELSE UNCHANGED faults
          /\ ask' = NoAsk
          /\ UNCHANGED nvs
    /\ UNCHANGED <<serverVars, card, link, late, call, stamped, drawn, visits, unbinds>>
Adopted(c, b) == [c EXCEPT !.binding = b, !.requested = FALSE, !.registered = FALSE, !.nonce = 0]
Adopt ==
    /\ ask.step = "saved"
    /\ card' = Adopted(card, ask.binding)
    /\ link' = [link EXCEPT !.portal = FALSE]
    /\ ask' = NoAsk
    /\ UNCHANGED <<serverVars, nvs, late, call, stamped, drawn, counters>>

-----------------------------------------------------------------------------
(* The uploader and the application. *)

(* The outer gate of upload_task, then set_authorization.                  *)
Call ==
    /\ call = NoCall
    /\ link.online /\ link.checked /\ Bound /\ ~card.requested
    /\ call' = [step |-> "sent", token |-> card.binding.token]
    /\ UNCHANGED <<serverVars, card, nvs, link, ask, late, stamped, drawn, counters>>
Authenticate ==
    /\ call.step = "sent"
    /\ call' = IF Accepts(call.token) THEN NoCall ELSE [call EXCEPT !.step = "refused"]
    /\ UNCHANGED <<serverVars, card, nvs, link, ask, late, stamped, drawn, counters>>
CallLost ==
    /\ Fault("lost")
    /\ call.step \in {"sent", "refused"}
    /\ call' = NoCall
    /\ UNCHANGED <<serverVars, card, nvs, link, ask, late, stamped, drawn, visits, unbinds>>

(* auth_repair_binding: the token leaves the flash, then the memory; the   *)
(* generation stays; one challenge at a time.                              *)
Erase ==
    /\ call.step = "refused"
    /\ \/ nvs' = [nvs EXCEPT !.token = 0, !.account = NoOne] /\ UNCHANGED faults
       \/ Fault("nvs") /\ UNCHANGED nvs
    /\ call' = [call EXCEPT !.step = "erased"]
    /\ UNCHANGED <<serverVars, card, link, ask, late, stamped, drawn, visits, unbinds>>
Forgotten(c) == [c EXCEPT !.binding = [@ EXCEPT !.token = 0, !.account = NoOne]]
(* Wrong variant of Repaired: only the copy in flash goes.                  *)
RepairedFlash(c) == c
Repaired(c) == IF c.requested THEN Forgotten(c) ELSE [Draw(Forgotten(c)) EXCEPT !.requested = TRUE]
Repair ==
    /\ call.step = "erased"
    /\ card' = Repaired(card)
    /\ IF Repaired(card).nonce = card.nonce THEN NotDrawn ELSE Drawn
    /\ call' = NoCall
    /\ UNCHANGED <<device, lapsed, tokens, nvs, link, ask, late, stamped, counters>>

(* net_session_begin: a recording begins under the binding of the moment.  *)
Record ==
    /\ Bound
    /\ stamped' = stamped \union {<<card.binding.generation, card.binding.account>>}
    /\ UNCHANGED <<serverVars, card, nvs, link, ask, late, call, drawn, counters>>

(* load_nvs_config, net_uploader_init: a card without a token forgets that *)
(* there was a challenge.                                                  *)
Booted == [binding |-> nvs, requested |-> FALSE, registered |-> FALSE, nonce |-> 0]
PowerFails ==
    /\ Fault("power")
    /\ card' = Booted
    /\ link' = [link EXCEPT !.online = FALSE, !.checked = FALSE, !.pending = FALSE, !.portal = FALSE]
    /\ late' = IF ask.step \in {"start", "status"} /\ ask.reply = "none"
               THEN late \union {[step |-> ask.step, nonce |-> ask.nonce]} ELSE late
    /\ ask' = NoAsk
    /\ call' = NoCall
    /\ UNCHANGED <<serverVars, nvs, stamped, drawn, visits, unbinds>>

-----------------------------------------------------------------------------
(* A new card without a network, or one that is bound.                     *)
Init ==
    /\ LET new == [owner |-> NoOne, generation |-> 0] IN
       \/ device = new /\ tokens = [issued |-> 0, live |-> 0, generation |-> 0] /\ nvs = NoBinding
       \/ \E a \in Accounts :
          /\ device = [owner |-> a, generation |-> 1]
          /\ tokens = [issued |-> 1, live |-> 1, generation |-> 1]
          /\ nvs = [token |-> 1, account |-> a, generation |-> 1]
    /\ rows = [n \in 1 .. 0 |-> "unknown"] /\ lapsed = {}
    /\ card = Booted
    /\ link = [known |-> nvs.token # 0, online |-> FALSE, checked |-> FALSE, pending |-> FALSE, portal |-> FALSE]
    /\ ask = NoAsk /\ late = {} /\ call = NoCall
    /\ stamped = {} /\ drawn = 0
    /\ visits = 0 /\ unbinds = 0 /\ faults = 0

Claims == \E a \in Accounts, n \in DOMAIN rows : Claim(a, n)
Expires == \E n \in DOMAIN rows : Expire(n)
PairingTask == CheckContract \/ Ask \/ Restart \/ Hear \/ Save \/ Adopt
Uploader == Call \/ Erase \/ Repair
Next ==
    \/ EnterPairing \/ ExitPairing \/ Provision
    \/ CandidateUp \/ CandidateFails \/ Reconnect \/ LinkDrops
    \/ CheckContract \/ Ask \/ Serve \/ TimeOut \/ ServeLate
    \/ Restart \/ Hear \/ Save \/ Adopt
    \/ Call \/ Authenticate \/ CallLost \/ Erase \/ Repair
    \/ Claims \/ Unbind \/ Expires \/ Record \/ PowerFails

Spec == Init /\ [][Next]_vars

(* The tasks run; the server answers; the account types the code the card  *)
(* shows; Wi-Fi is found where it is looked for.  Nobody has to open or    *)
(* leave the page.                                                         *)
ClaimShown == \E a \in Accounts : Claim(a, card.nonce)
Fairness ==
    /\ WF_vars(PairingTask) /\ WF_vars(Uploader)
    /\ WF_vars(Serve) /\ WF_vars(Authenticate)
    /\ SF_vars(ClaimShown)
    /\ WF_vars(Reconnect)
FairSpec == Spec /\ Fairness

-----------------------------------------------------------------------------
(* Properties. *)

Challenges == 0 .. drawn
Bindings == [token : 0 .. tokens.issued, account : Accounts \union {NoOne}, generation : 0 .. device.generation]

(* Every token was issued and every challenge drawn, and the card is never *)
(* ahead of the server in binding generations: what it accepts (json_u32,  *)
(* >= s_binding_generation) it can accept again.                           *)
TypeOK ==
    /\ device \in [owner : Accounts \union {NoOne}, generation : Nat]
    /\ rows \in [1 .. drawn -> Active \union {"unknown", "superseded", "revoked"}]
    /\ lapsed \subseteq 1 .. drawn
    /\ tokens \in [issued : Nat, live : Nat, generation : 0 .. device.generation] /\ tokens.live \in {0, tokens.issued}
    /\ nvs \in Bindings
    /\ card \in [binding : Bindings, requested : BOOLEAN, registered : BOOLEAN, nonce : Challenges]
    /\ link \in [known : BOOLEAN, online : BOOLEAN, checked : BOOLEAN, pending : BOOLEAN, portal : BOOLEAN]
    /\ ask \in [step : {"none", "start", "status", "saved"}, nonce : Challenges, binding : Bindings,
                reply : {"none", "registered", "pending", "restart", "bound", "saved"}]
    /\ late \subseteq [step : {"start", "status"}, nonce : Challenges]
    /\ call \in [step : {"none", "sent", "refused", "erased"}, token : 0 .. tokens.issued]
    /\ stamped \subseteq (1 .. device.generation) \X Accounts

(* A recording never reaches another account than the one the card showed  *)
(* when it began: while the server accepts the card's token, every         *)
(* recording of the generation the card uploads belongs to the owner.      *)
NotHandedOver ==
    Accepts(card.binding.token) =>
        \A p \in stamped : p[1] = card.binding.generation => p[2] = device.owner

(* A challenge ends while Wi-Fi stays: the card is bound, or the user      *)
(* leaves the page, whatever was lost, ran out or was revoked before.      *)
Pairs == <>[]link.online => (card.requested ~> ~card.requested)

(* A card whose token is dead does not go on believing in it: it asks to   *)
(* be paired again (auth_repair_binding), with the next request that       *)
(* reaches the server.                                                     *)
DeadToken == Bound /\ ~Accepts(card.binding.token)
Notices == <>[]link.online => (DeadToken ~> ~DeadToken)

(* While the account keeps the card, the token the card works with is      *)
(* good: a rotation leaves the old one usable until the new one is stored  *)
(* (the comment in net_enter_pairing, PROVISIONING_AND_BINDING_DESIGN.md). *)
OldTokenLives ==
    Bound /\ device.owner = card.binding.account /\ device.generation = card.binding.generation
        => Accepts(card.binding.token)

(* A card that knows a network and has lost it looks for it again, with    *)
(* nobody at the pairing page (V0_8_1_TODO_WIFI.md).                       *)
BackOnline == (link.known /\ ~link.online /\ ~link.portal) ~> (link.online \/ link.portal)
=============================================================================
