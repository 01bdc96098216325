---------------------------- MODULE PairingProofs ----------------------------
(***************************************************************************)
(* For any accounts and any number of visits, unbindings, challenges and   *)
(* faults: what was recorded for one account is never uploaded to another. *)
(***************************************************************************)
EXTENDS Pairing, TLAPS

-----------------------------------------------------------------------------
(* The inductive invariant.                                                *)

States == Active \union {"unknown", "superseded", "revoked"}
Devices == [owner : Accounts \union {NoOne}, generation : Nat]
Tokens == [issued : Nat, live : Nat, generation : 0 .. device.generation]
Cards == [binding : Bindings, requested : BOOLEAN, registered : BOOLEAN, nonce : Challenges]
Links == [known : BOOLEAN, online : BOOLEAN, checked : BOOLEAN, pending : BOOLEAN, portal : BOOLEAN]
Asks == [step : {"none", "start", "status", "saved"}, nonce : Challenges, binding : Bindings,
         reply : {"none", "registered", "pending", "restart", "bound", "saved"}]
Lates == [step : {"start", "status"}, nonce : 1 .. drawn]
Calls == [step : {"none", "sent", "refused", "erased"}, token : 0 .. tokens.issued]

Typed ==
  /\ device \in Devices /\ drawn \in Nat /\ rows \in [1 .. drawn -> States] /\ lapsed \subseteq 1 .. drawn
  /\ tokens \in Tokens /\ tokens.live \in {0, tokens.issued}
  /\ nvs \in Bindings /\ card \in Cards /\ link \in Links /\ ask \in Asks
  /\ late \subseteq Lates /\ call \in Calls
  /\ stamped \subseteq (1 .. device.generation) \X Accounts

(* Only a card with an owner has challenges that are good for a token.     *)
Owned ==
  /\ device.owner # NoOne => device.generation > 0
  /\ \A n \in 1 .. drawn : rows[n] \in {"claimed", "delivered"} => device.owner # NoOne

(* A binding names the owner of its generation, and a good token its own.  *)
Tied(b) ==
  b.token # 0 =>
     /\ b.account \in Accounts /\ b.generation > 0
     /\ b.token = tokens.live => b.generation = tokens.generation
     /\ b.generation = device.generation => b.account = device.owner
Ties == Tied(card.binding) /\ Tied(nvs) /\ Tied(ask.binding)

(* A generation has one owner.                                             *)
Stamps == \A p \in stamped : p[1] = device.generation => p[2] = device.owner

(* Only what was drawn is asked for, and only a token is kept.             *)
Asking ==
  /\ ask.step \in {"start", "status"} => ask.nonce # 0
  /\ ask.step = "saved" => ask.binding.token # 0
  /\ ask.reply = "bound" => ask.binding.token # 0
  /\ card.requested \/ (~Bound /\ (link.portal \/ link.pending)) => card.nonce # 0

IInv == Typed /\ Owned /\ Ties /\ Stamps /\ Asking

-----------------------------------------------------------------------------
LEMMA Nothings ==
  ASSUME Typed
  PROVE  /\ NoBinding \in Bindings /\ NoAsk \in Asks /\ NoCall \in Calls
         /\ NoBinding.token = 0 /\ NoAsk.step = "none" /\ NoAsk.reply = "none"
         /\ NoAsk.binding = NoBinding
<1>1. 0 \in 0 .. tokens.issued /\ 0 \in 0 .. device.generation /\ 0 \in Challenges
  BY DEF Typed, Tokens, Devices, Challenges
<1>2. NoBinding \in Bindings BY <1>1 DEF NoBinding, Bindings
<1> QED BY <1>1, <1>2 DEF NoBinding, NoAsk, Asks, NoCall, Calls

LEMMA InitInv == Init => IInv
<1> SUFFICES ASSUME Init PROVE IInv OBVIOUS
<1> USE PairingAssumption
<1>1. /\ drawn = 0 /\ rows = [n \in 1 .. 0 |-> "unknown"] /\ lapsed = {} /\ stamped = {} /\ late = {}
      /\ ask = NoAsk /\ call = NoCall /\ card = Booted
      /\ link = [known |-> nvs.token # 0, online |-> FALSE, checked |-> FALSE, pending |-> FALSE, portal |-> FALSE]
  BY DEF Init
<1>2. \/ /\ device = [owner |-> NoOne, generation |-> 0]
         /\ tokens = [issued |-> 0, live |-> 0, generation |-> 0] /\ nvs = NoBinding
      \/ \E a \in Accounts : /\ device = [owner |-> a, generation |-> 1]
                             /\ tokens = [issued |-> 1, live |-> 1, generation |-> 1]
                             /\ nvs = [token |-> 1, account |-> a, generation |-> 1]
  BY DEF Init
<1>3. device \in Devices /\ tokens \in Tokens /\ tokens.live \in {0, tokens.issued} /\ nvs \in Bindings
  BY <1>2 DEF Devices, Tokens, Bindings, NoBinding
<1>4. rows \in [1 .. drawn -> States] BY <1>1 DEF States
<1>5. card \in Cards BY <1>1, <1>3 DEF Booted, Cards, Challenges
<1>6. ask \in Asks /\ call \in Calls
  <2>1. 0 \in 0 .. tokens.issued /\ 0 \in 0 .. device.generation /\ 0 \in Challenges
    BY <1>1, <1>3 DEF Tokens, Devices, Challenges
  <2>2. NoBinding \in Bindings BY <2>1 DEF NoBinding, Bindings
  <2> QED BY <1>1, <2>1, <2>2 DEF NoAsk, Asks, NoCall, Calls
<1>7. link \in Links BY <1>1 DEF Links
<1>8. Typed BY <1>1, <1>3, <1>4, <1>5, <1>6, <1>7 DEF Typed
<1>9. Owned BY <1>1, <1>2 DEF Owned
<1>10. Tied(nvs) BY <1>2 DEF Tied, NoBinding
<1>11. Ties BY <1>1, <1>10 DEF Ties, Tied, Booted, NoAsk, NoBinding
<1>12. Asking /\ Stamps BY <1>1 DEF Asking, Stamps, NoAsk, Booted
<1> QED BY <1>8, <1>9, <1>11, <1>12 DEF IInv

(* What the card does by itself: server and recordings stay.               *)
LEMMA CardInv ==
  ASSUME IInv, UNCHANGED <<device, tokens, lapsed, stamped>>,
         \/ UNCHANGED <<drawn, rows>>
         \/ Drawn,
         nvs' \in Bindings, card' \in Cards', link' \in Links, ask' \in Asks, call' \in Calls,
         late' \subseteq Lates, Tied(card'.binding), Tied(nvs'), Tied(ask'.binding), Asking'
  PROVE  IInv'
<1> USE DEF IInv
<1>1. /\ drawn' \in Nat /\ 1 .. drawn \subseteq 1 .. drawn' /\ Challenges \subseteq Challenges'
      /\ rows' \in [1 .. drawn' -> States]
      /\ \A n \in 1 .. drawn' : rows'[n] \in {"claimed", "delivered"} =>
           n \in 1 .. drawn /\ rows[n] \in {"claimed", "delivered"}
  <2>1. CASE UNCHANGED <<drawn, rows>> BY <2>1 DEF Typed, Challenges
  <2>2. CASE Drawn
    <3>1. drawn' = drawn + 1 /\ drawn \in Nat /\ drawn' \in Nat
      BY <2>2 DEF Drawn, Typed
    <3>2. rows' = [n \in 1 .. drawn' |-> IF n > drawn THEN "unknown" ELSE rows[n]]
      BY <2>2 DEF Drawn
    <3>3. \A n \in 1 .. drawn' : n > drawn \/ n \in 1 .. drawn BY <3>1
    <3>4. 1 .. drawn \subseteq 1 .. drawn' /\ Challenges \subseteq Challenges' BY <3>1 DEF Challenges
    <3>5. rows' \in [1 .. drawn' -> States] BY <3>2, <3>3 DEF Typed, States
    <3>6. ASSUME NEW n \in 1 .. drawn', rows'[n] \in {"claimed", "delivered"}
          PROVE  n \in 1 .. drawn /\ rows[n] \in {"claimed", "delivered"}
      <4>1. rows'[n] = IF n > drawn THEN "unknown" ELSE rows[n] BY <3>2
      <4>2. ~(n > drawn) BY <3>6, <4>1
      <4> QED BY <3>3, <3>6, <4>1, <4>2
    <3> QED BY <3>1, <3>4, <3>5, <3>6
  <2> QED BY <2>1, <2>2
<1>2. Bindings' = Bindings /\ Tokens' = Tokens /\ Calls' = Calls BY DEF Bindings, Tokens, Calls
<1>3. Asks \subseteq Asks' /\ Lates \subseteq Lates' BY <1>1, <1>2 DEF Asks, Lates
<1>4. Typed' BY <1>1, <1>2, <1>3 DEF Typed
<1>5. Owned' BY <1>1 DEF Owned
<1>6. \A b : Tied(b) <=> Tied(b)' BY DEF Tied
<1>7. Ties' BY <1>6 DEF Ties
<1>8. Stamps' BY DEF Stamps
<1> QED BY <1>4, <1>5, <1>7, <1>8

LEMMA CardFacts ==
  ASSUME IInv
  PROVE  /\ nvs \in Bindings /\ card \in Cards /\ link \in Links /\ ask \in Asks /\ call \in Calls
         /\ late \subseteq Lates /\ Tied(card.binding) /\ Tied(nvs) /\ Tied(ask.binding)
         /\ card.binding \in Bindings /\ ask.binding \in Bindings /\ card.nonce \in Challenges
         /\ ask.nonce \in Challenges /\ drawn \in Nat
BY DEF IInv, Typed, Ties, Cards, Asks

(* A new challenge, drawn by whoever needs one.                            *)
LEMMA DrawFacts ==
  ASSUME IInv, Drawn, NEW c \in Cards, UNCHANGED <<device, tokens>>
  PROVE  /\ Draw(c) \in Cards' /\ Draw(c).nonce # 0 /\ Draw(c).binding = c.binding
         /\ Draw(c).requested = c.requested
         /\ [Draw(c) EXCEPT !.requested = TRUE] \in Cards'
         /\ [Draw(c) EXCEPT !.requested = TRUE].binding = c.binding
         /\ [Draw(c) EXCEPT !.requested = TRUE].nonce # 0
<1>1. drawn' = drawn + 1 /\ drawn \in Nat BY CardFacts DEF Drawn
<1>2. drawn + 1 \in Challenges' /\ drawn + 1 # 0 BY <1>1 DEF Challenges
<1>3. Bindings' = Bindings BY DEF Bindings
<1> QED BY <1>2, <1>3 DEF Draw, Cards

LEMMA SameCards ==
  ASSUME UNCHANGED <<device, tokens, drawn>> PROVE Cards' = Cards
BY DEF Cards, Bindings, Challenges

-----------------------------------------------------------------------------
(* The page, Wi-Fi and the form.                                           *)

LEMMA EnterInv == ASSUME IInv, EnterPairing PROVE IInv'
<1>1. /\ Drawn /\ UNCHANGED <<device, lapsed, tokens, nvs, ask, late, call, stamped>>
      /\ card' = [Draw(card) EXCEPT !.requested = TRUE] \/ card' = Draw(card)
      /\ link' = [link EXCEPT !.portal = TRUE] \/ link' = link
  BY DEF EnterPairing
<1>2. card' \in Cards' /\ card'.nonce # 0 /\ card'.binding = card.binding
  BY <1>1, CardFacts, DrawFacts
<1>3. link' \in Links BY <1>1, CardFacts DEF Links
<1>4. Asking' BY <1>1, <1>2 DEF IInv, Asking
<1> QED BY <1>1, <1>2, <1>3, <1>4, CardFacts, CardInv

(* Steps that change the link, and perhaps withdraw the request.           *)
LEMMA LinkInv ==
  ASSUME IInv, UNCHANGED <<device, rows, lapsed, tokens, nvs, ask, late, call, stamped, drawn>>,
         link' \in Links, NEW req \in BOOLEAN, card' = [card EXCEPT !.requested = req],
         req \/ (~Bound /\ (link'.portal \/ link'.pending)) => card.nonce # 0
  PROVE  IInv'
<1>1. card' \in Cards /\ card'.nonce = card.nonce /\ card'.binding = card.binding /\ card'.requested = req
  BY CardFacts DEF Cards
<1>2. Asking' BY <1>1 DEF IInv, Asking, Bound
<1> QED BY <1>1, <1>2, CardFacts, CardInv, SameCards

LEMMA ExitInv == ASSUME IInv, ExitPairing PROVE IInv'
<1>1. /\ UNCHANGED <<device, rows, lapsed, tokens, nvs, ask, late, call, stamped, drawn>>
      /\ card' = [card EXCEPT !.requested = FALSE]
      /\ link' = [link EXCEPT !.portal = FALSE, !.pending = FALSE,
                              !.online = @ /\ link.known /\ ~link.pending,
                              !.checked = @ /\ link.known /\ ~link.pending]
  BY DEF ExitPairing, serverVars
<1>2. link' \in Links /\ ~link'.portal /\ ~link'.pending BY <1>1, CardFacts DEF Links
<1> QED BY <1>1, <1>2, LinkInv

LEMMA WifiInv ==
  ASSUME IInv, Provision \/ CandidateFails \/ Reconnect \/ LinkDrops \/ CheckContract PROVE IInv'
<1>1. /\ UNCHANGED <<device, rows, lapsed, tokens, nvs, ask, late, call, stamped, drawn, card>>
  BY DEF Provision, CandidateFails, Reconnect, LinkDrops, CheckContract, serverVars
<1>2. link' \in Links /\ (link'.portal \/ link'.pending => link.portal \/ link.pending)
  <2>1. link \in Links BY CardFacts
  <2>2. CASE Provision BY <2>1, <2>2 DEF Provision, Links
  <2>3. CASE CandidateFails BY <2>1, <2>3 DEF CandidateFails, Links
  <2>4. CASE Reconnect BY <2>1, <2>4 DEF Reconnect, Links
  <2>5. CASE LinkDrops BY <2>1, <2>5 DEF LinkDrops, Links
  <2>6. CASE CheckContract BY <2>1, <2>6 DEF CheckContract, Links
  <2> QED BY <2>2, <2>3, <2>4, <2>5, <2>6
<1>3. Asking' BY <1>1, <1>2 DEF IInv, Asking, Bound
<1> QED BY <1>1, <1>2, <1>3, CardFacts, CardInv, SameCards

LEMMA CandidateUpInv == ASSUME IInv, CandidateUp PROVE IInv'
<1>1. UNCHANGED <<device, rows, lapsed, tokens, nvs, ask, late, call, stamped, drawn>> /\ link.pending
  BY DEF CandidateUp, serverVars
<1>2. CASE /\ card' = [card EXCEPT !.requested = ~Bound]
           /\ link' = [link EXCEPT !.pending = FALSE, !.online = TRUE, !.known = TRUE]
  <2>1. link' \in Links BY <1>2, CardFacts DEF Links
  <2>2. ~Bound => card.nonce # 0 BY <1>1 DEF IInv, Asking
  <2>3. (~Bound) \in BOOLEAN BY DEF Bound
  <2> QED BY <1>1, <1>2, <2>1, <2>2, <2>3, LinkInv
(* The network could not be saved: it stays a candidate.                   *)
<1>3. CASE card' = card /\ link' = [link EXCEPT !.online = TRUE]
  <2>1. link' \in Links /\ (link'.portal \/ link'.pending => link.portal \/ link.pending)
    BY <1>3, CardFacts DEF Links
  <2>2. Asking' BY <1>1, <1>3, <2>1 DEF IInv, Asking, Bound
  <2> QED BY <1>1, <1>3, <2>1, <2>2, CardFacts, CardInv, SameCards
<1> QED BY <1>2, <1>3 DEF CandidateUp

-----------------------------------------------------------------------------
(* The pairing task and the server.                                        *)

LEMMA AskInv == ASSUME IInv, Ask PROVE IInv'
<1>1. /\ UNCHANGED <<device, rows, lapsed, tokens, card, nvs, link, late, call, stamped, drawn>>
      /\ card.requested
      /\ ask' = [NoAsk EXCEPT !.step = IF card.registered THEN "status" ELSE "start", !.nonce = card.nonce]
  BY DEF Ask, serverVars
<1>2. PICK st \in {"status", "start"} :
         ask' = [step |-> st, nonce |-> card.nonce, reply |-> "none", binding |-> NoBinding]
  BY <1>1 DEF NoAsk
<1>3. /\ ask'.step = st /\ ask'.nonce = card.nonce /\ ask'.reply = "none" /\ ask'.binding = NoBinding
      /\ NoBinding.token = 0
  BY <1>2 DEF NoBinding
<1>4. ask' \in Asks
  <2>1. NoBinding \in Bindings /\ card.nonce \in Challenges BY CardFacts, Nothings DEF IInv
  <2> QED BY <1>2, <2>1 DEF Asks
<1>5. Asking'
  <2>1. card.nonce # 0 BY <1>1 DEF IInv, Asking
  <2>2. st # "saved" OBVIOUS
  <2> QED BY <1>1, <1>3, <2>1, <2>2 DEF Asking
<1> QED BY <1>1, <1>3, <1>4, <1>5, CardFacts, CardInv, SameCards DEF Tied

(* Where no token is given.                                                *)
LEMMA NoGrantInv ==
  ASSUME IInv, UNCHANGED <<device, tokens, lapsed, nvs, card, link, call, stamped, drawn>>,
         rows' \in [1 .. drawn -> States],
         \A m \in 1 .. drawn : rows'[m] \in {"claimed", "delivered"} => rows[m] \in {"claimed", "delivered"},
         late' \subseteq late, ask' \in Asks, Tied(ask'.binding), Asking'
  PROVE  IInv'
<1> USE DEF IInv
<1>1. /\ Bindings' = Bindings /\ Tokens' = Tokens /\ Calls' = Calls /\ Challenges' = Challenges
  BY DEF Bindings, Tokens, Calls, Challenges
<1>2. Cards' = Cards /\ Asks' = Asks /\ Lates' = Lates BY <1>1 DEF Cards, Asks, Lates
<1>3. Typed' BY <1>1, <1>2 DEF Typed
<1>4. Owned' BY DEF Owned
<1>5. \A b : Tied(b) <=> Tied(b)' BY DEF Tied
<1>6. Ties' BY <1>5 DEF Ties
<1> QED BY <1>3, <1>4, <1>6 DEF Stamps

LEMMA StartFacts ==
  ASSUME IInv, NEW n \in 1 .. drawn, ServeStart(n)
  PROVE  /\ UNCHANGED <<device, lapsed, tokens>> /\ rows' \in [1 .. drawn -> States]
         /\ \A m \in 1 .. drawn : rows'[m] \in {"claimed", "delivered"} => rows[m] \in {"claimed", "delivered"}
<1>1. rows \in [1 .. drawn -> States] BY DEF IInv, Typed
<1>2. rows' = rows \/ rows' = [m \in 1 .. drawn |->
                                 IF m = n THEN "pending" ELSE IF rows[m] = "pending" THEN "superseded" ELSE rows[m]]
  BY <1>1 DEF ServeStart, Registered
<1>3. UNCHANGED <<device, lapsed, tokens>> BY DEF ServeStart
<1>4. CASE rows' = rows BY <1>1, <1>3, <1>4
<1>5. CASE rows' # rows
  <2>1. \A m \in 1 .. drawn : rows'[m] = IF m = n THEN "pending" ELSE IF rows[m] = "pending" THEN "superseded" ELSE rows[m]
    BY <1>2, <1>5
  <2>2. rows' \in [1 .. drawn -> States] BY <1>1, <1>2, <1>5 DEF States, Active
  <2> QED BY <1>3, <2>1, <2>2
<1> QED BY <1>4, <1>5

(* A token: the account and the generation of the moment, and the only one *)
(* that is good from now on.                                               *)
LEMMA GrantInv ==
  ASSUME IInv, NEW n \in 1 .. drawn, ServeStatus(n), Grants(n),
         UNCHANGED <<nvs, card, link, call, stamped, drawn>>, late' \subseteq late,
         \/ ask' = ask
         \/ ask' = [ask EXCEPT !.reply = "bound", !.binding = Granted]
  PROVE  IInv'
<1> USE DEF IInv
<1>1. /\ rows' = [rows EXCEPT ![n] = "delivered"] /\ UNCHANGED <<device, lapsed>>
      /\ tokens' = [issued |-> tokens.issued + 1, live |-> tokens.issued + 1, generation |-> device.generation]
  BY DEF ServeStatus
<1>2. /\ device.owner \in Accounts /\ device.generation \in Nat /\ device.generation > 0
      /\ tokens.issued \in Nat /\ device.owner # NoOne
  BY DEF Grants, State, Owned, Typed, Devices, Tokens
<1>3. /\ tokens' \in Tokens' /\ tokens'.live = tokens.issued + 1 /\ tokens'.issued = tokens.issued + 1
      /\ tokens'.generation = device.generation
  BY <1>1, <1>2 DEF Tokens
<1>4. 0 .. tokens.issued \subseteq 0 .. tokens'.issued /\ tokens.issued + 1 \in 0 .. tokens'.issued
  BY <1>2, <1>3
<1>5. /\ Bindings \subseteq Bindings' /\ Calls \subseteq Calls' /\ Challenges' = Challenges
  BY <1>1, <1>4 DEF Bindings, Calls, Challenges
<1>6. Cards \subseteq Cards' /\ Asks \subseteq Asks' /\ Lates' = Lates BY <1>5 DEF Cards, Asks, Lates
<1>7. PICK b : /\ b = Granted
              /\ b = [token |-> tokens.issued + 1, account |-> device.owner, generation |-> device.generation]
  BY DEF Granted
<1>8. b \in Bindings' /\ b.token # 0 /\ Tied(b)'
  <2>1. device.generation \in 0 .. device.generation BY <1>2
  <2>2. b \in Bindings' BY <1>1, <1>2, <1>4, <1>7, <2>1 DEF Bindings
  <2> QED BY <1>1, <1>2, <1>3, <1>7, <2>2 DEF Tied
<1>9. ASSUME NEW c \in Bindings, Tied(c) PROVE Tied(c)'
  <2>1. c.token \in 0 .. tokens.issued BY DEF Bindings
  <2>2. c.token # tokens'.live BY <1>2, <1>3, <2>1
  <2> QED BY <1>1, <1>9, <2>2 DEF Tied
<1>10. /\ ask' \in Asks' /\ ask'.step = ask.step /\ ask'.nonce = ask.nonce
       /\ \/ ask'.reply = ask.reply /\ ask'.binding = ask.binding
          \/ ask'.reply = "bound" /\ ask'.binding = b
  <2>1. CASE ask' = ask BY <1>6, <2>1, CardFacts
  <2>2. CASE ask' = [ask EXCEPT !.reply = "bound", !.binding = b]
    <3>1. ask \in Asks' BY <1>6, CardFacts
    <3> QED BY <1>8, <2>2, <3>1 DEF Asks
  <2> QED BY <1>7, <2>1, <2>2
<1>11. rows' \in [1 .. drawn -> States] BY <1>1 DEF Typed, States, Active
<1>12. Typed'
  <2>1. nvs' \in Bindings' /\ card' \in Cards' /\ link' \in Links /\ call' \in Calls' /\ late' \subseteq Lates'
    BY <1>5, <1>6, CardFacts
  <2>2. /\ device' \in Devices /\ drawn' \in Nat /\ lapsed' \subseteq 1 .. drawn'
        /\ stamped' \subseteq (1 .. device'.generation) \X Accounts
    BY <1>1 DEF Typed
  <2> QED BY <1>3, <1>10, <1>11, <2>1, <2>2 DEF Typed
<1>13. Owned' BY <1>1, <1>2 DEF Owned
<1>14. Ties'
  <2>1. Tied(card.binding)' /\ Tied(nvs)'
    <3>1. card.binding \in Bindings /\ Tied(card.binding) /\ nvs \in Bindings /\ Tied(nvs) BY CardFacts
    <3>2. nvs' = nvs /\ card' = card OBVIOUS
    <3>3. nvs.token # tokens'.live /\ card.binding.token # tokens'.live
      BY <1>2, <1>3, <3>1 DEF Bindings
    <3> QED BY <1>1, <3>1, <3>2, <3>3 DEF Tied
  <2>2. Tied(ask.binding)'
    <3>1. ask.binding \in Bindings /\ Tied(ask.binding) BY CardFacts
    <3>3. ask.binding.token # tokens'.live BY <1>2, <1>3, <3>1 DEF Bindings
    <3>4. CASE ask'.binding = ask.binding BY <1>1, <3>1, <3>3, <3>4 DEF Tied
    <3>5. CASE ask'.binding = b
      <4>1. b.account = device.owner /\ b.generation = device.generation BY <1>7
      <4> QED BY <1>1, <1>2, <1>3, <3>5, <4>1 DEF Tied
    <3> QED BY <1>10, <3>4, <3>5
  <2> QED BY <2>1, <2>2 DEF Ties
<1>15. Stamps' BY <1>1 DEF Stamps
<1>16. Asking' BY <1>8, <1>10 DEF Asking, Bound
<1> QED BY <1>12, <1>13, <1>14, <1>15, <1>16

LEMMA ServeInv == ASSUME IInv, Serve PROVE IInv'
<1>0. /\ UNCHANGED <<card, nvs, link, late, call, stamped, drawn>>
      /\ ask.step \in {"start", "status"} /\ ask.reply = "none"
  BY DEF Serve
<1>1. ask.nonce \in 1 .. drawn
  BY <1>0, CardFacts DEF IInv, Asking, Challenges
<1>2. CASE ask.step = "start"
  <2>1. ServeStart(ask.nonce) /\ ask' = [ask EXCEPT !.reply = StartReply(ask.nonce)]
    BY <1>2 DEF Serve
  <2>2. PICK reply \in {"restart", "registered"} : ask' = [ask EXCEPT !.reply = reply]
    BY <2>1 DEF StartReply
  <2>3. /\ ask' \in Asks /\ ask'.step = ask.step /\ ask'.nonce = ask.nonce /\ ask'.binding = ask.binding
        /\ ask'.reply # "bound"
    BY <2>2, CardFacts DEF Asks
  <2>4. /\ UNCHANGED <<device, lapsed, tokens>> /\ rows' \in [1 .. drawn -> States]
        /\ \A m \in 1 .. drawn : rows'[m] \in {"claimed", "delivered"} => rows[m] \in {"claimed", "delivered"}
    BY <1>1, <2>1, StartFacts
  <2>5. Asking' BY <1>0, <2>3 DEF IInv, Asking, Bound
  <2> QED BY <1>0, <2>3, <2>4, <2>5, CardFacts, NoGrantInv
<1>3. CASE ask.step = "status"
  <2>1. /\ ServeStatus(ask.nonce)
        /\ ask' = [ask EXCEPT !.reply = StatusReply(ask.nonce),
                              !.binding = IF Grants(ask.nonce) THEN Granted ELSE NoBinding]
    BY <1>3 DEF Serve
  <2>2. CASE Grants(ask.nonce)
    <3>1. ask' = [ask EXCEPT !.reply = "bound", !.binding = Granted] BY <2>1, <2>2 DEF StatusReply
    <3> QED BY <1>0, <1>1, <2>1, <2>2, <3>1, GrantInv
  <2>3. CASE ~Grants(ask.nonce)
    <3>1. UNCHANGED <<device, lapsed, tokens, rows>> BY <2>1, <2>3 DEF ServeStatus
    <3>2. PICK reply \in {"pending", "restart"} :
             ask' = [ask EXCEPT !.reply = reply, !.binding = NoBinding]
      BY <2>1, <2>3 DEF StatusReply
    <3>3. NoBinding \in Bindings /\ NoBinding.token = 0 BY Nothings DEF IInv
    <3>4. /\ ask' \in Asks /\ ask'.step = ask.step /\ ask'.nonce = ask.nonce
          /\ ask'.binding = NoBinding /\ ask'.reply # "bound"
      BY <3>2, <3>3, CardFacts DEF Asks
    <3>5. Asking' BY <1>0, <1>3, <3>4 DEF IInv, Asking, Bound
    <3>6. Tied(ask'.binding) BY <3>3, <3>4 DEF Tied
    <3>7. rows' \in [1 .. drawn -> States] BY <3>1 DEF IInv, Typed
    <3> QED BY <1>0, <3>1, <3>4, <3>5, <3>6, <3>7, NoGrantInv
  <2> QED BY <2>2, <2>3
<1> QED BY <1>0, <1>2, <1>3

LEMMA ServeLateInv == ASSUME IInv, ServeLate PROVE IInv'
<1>0. UNCHANGED <<card, nvs, link, ask, call, stamped, drawn>> BY DEF ServeLate
<1>1. PICK r \in late : /\ late' = late \ {r}
                        /\ IF r.step = "start" THEN ServeStart(r.nonce) ELSE ServeStatus(r.nonce)
  BY DEF ServeLate
<1>2. r.nonce \in 1 .. drawn /\ late' \subseteq late BY <1>1, CardFacts DEF Lates
<1>3. Asking' /\ ask' \in Asks /\ Tied(ask'.binding)
  BY <1>0, CardFacts DEF IInv, Asking, Bound
<1>4. CASE r.step = "start"
  <2>1. ServeStart(r.nonce) BY <1>1, <1>4
  <2>2. /\ UNCHANGED <<device, lapsed, tokens>> /\ rows' \in [1 .. drawn -> States]
        /\ \A m \in 1 .. drawn : rows'[m] \in {"claimed", "delivered"} => rows[m] \in {"claimed", "delivered"}
    BY <1>2, <2>1, StartFacts
  <2> QED BY <1>0, <1>2, <1>3, <2>2, NoGrantInv
<1>5. CASE r.step # "start"
  <2>1. ServeStatus(r.nonce) BY <1>1, <1>5
  <2>2. CASE Grants(r.nonce) BY <1>0, <1>2, <2>1, <2>2, GrantInv
  <2>3. CASE ~Grants(r.nonce)
    <3>1. UNCHANGED <<device, lapsed, tokens, rows>> BY <2>1, <2>3 DEF ServeStatus
    <3>2. rows' \in [1 .. drawn -> States] BY <3>1 DEF IInv, Typed
    <3> QED BY <1>0, <1>2, <1>3, <3>1, <3>2, NoGrantInv
  <2> QED BY <2>2, <2>3
<1> QED BY <1>4, <1>5

(* The task waits no longer, or power fails: the request may still arrive. *)
LEMMA LateFacts ==
  ASSUME IInv,
         late' = IF ask.step \in {"start", "status"} /\ ask.reply = "none"
                 THEN late \union {[step |-> ask.step, nonce |-> ask.nonce]} ELSE late
  PROVE  late' \subseteq Lates
<1>1. late \subseteq Lates BY CardFacts
<1>2. CASE ask.step \in {"start", "status"} /\ ask.reply = "none"
  <2>1. ask.nonce \in 1 .. drawn BY <1>2, CardFacts DEF IInv, Asking, Challenges
  <2>2. [step |-> ask.step, nonce |-> ask.nonce] \in Lates BY <1>2, <2>1 DEF Lates
  <2> QED BY <1>1, <1>2, <2>2
<1> QED BY <1>1, <1>2

LEMMA TimeOutInv == ASSUME IInv, TimeOut PROVE IInv'
<1>1. /\ UNCHANGED <<device, rows, lapsed, tokens, card, nvs, link, call, stamped, drawn>>
      /\ ask' = NoAsk
  BY DEF TimeOut, serverVars
<1>2. late' \subseteq Lates BY LateFacts DEF TimeOut
<1>3. /\ NoAsk \in Asks /\ NoAsk.step = "none" /\ NoAsk.reply = "none" /\ NoAsk.binding.token = 0
  BY Nothings DEF IInv
<1>4. Asking' BY <1>1, <1>3 DEF IInv, Asking, Bound
<1> QED BY <1>1, <1>2, <1>3, <1>4, CardFacts, CardInv, SameCards DEF Tied

LEMMA RestartInv == ASSUME IInv, Restart PROVE IInv'
<1>1. /\ Drawn /\ card' = Draw(card) /\ ask' = NoAsk
      /\ UNCHANGED <<device, lapsed, tokens, nvs, link, late, call, stamped>>
  BY DEF Restart
<1>2. card' \in Cards' /\ card'.nonce # 0 /\ card'.binding = card.binding
  BY <1>1, CardFacts, DrawFacts
<1>3. /\ NoAsk \in Asks /\ NoAsk.step = "none" /\ NoAsk.reply = "none" /\ NoAsk.binding.token = 0
  BY Nothings DEF IInv
<1>4. Asking' BY <1>1, <1>2, <1>3 DEF Asking
<1> QED BY <1>1, <1>2, <1>3, <1>4, CardFacts, CardInv DEF Tied

LEMMA HearInv == ASSUME IInv, Hear PROVE IInv'
<1>1. /\ UNCHANGED <<device, rows, lapsed, tokens, nvs, link, late, call, stamped, drawn>>
      /\ card' = [card EXCEPT !.registered = @ \/ ask.reply = "registered"] /\ ask' = NoAsk
  BY DEF Hear, serverVars
<1>2. /\ card' \in Cards /\ card'.nonce = card.nonce /\ card'.binding = card.binding
      /\ card'.requested = card.requested
  BY <1>1, CardFacts DEF Cards
<1>3. /\ NoAsk \in Asks /\ NoAsk.step = "none" /\ NoAsk.reply = "none" /\ NoAsk.binding.token = 0
  BY Nothings DEF IInv
<1>4. Asking' BY <1>1, <1>2, <1>3 DEF IInv, Asking, Bound
<1> QED BY <1>1, <1>2, <1>3, <1>4, CardFacts, CardInv, SameCards DEF Tied

LEMMA SaveInv == ASSUME IInv, Save PROVE IInv'
<1>1. /\ UNCHANGED <<device, rows, lapsed, tokens, card, link, late, call, stamped, drawn>>
      /\ ask.reply = "bound"
  BY DEF Save, serverVars
<1>2. CASE nvs' = ask.binding /\ ask' = [ask EXCEPT !.step = "saved", !.reply = "saved"]
  <2>1. /\ ask' \in Asks /\ ask'.step = "saved" /\ ask'.reply = "saved" /\ ask'.binding = ask.binding
    BY <1>2, CardFacts DEF Asks
  <2>2. Asking' BY <1>1, <2>1 DEF IInv, Asking, Bound
  <2> QED BY <1>1, <1>2, <2>1, <2>2, CardFacts, CardInv, SameCards
<1>3. CASE ask' = NoAsk /\ UNCHANGED nvs
  <2>1. /\ NoAsk \in Asks /\ NoAsk.step = "none" /\ NoAsk.reply = "none" /\ NoAsk.binding.token = 0
    BY Nothings DEF IInv
  <2>2. Asking' BY <1>1, <1>3, <2>1 DEF IInv, Asking, Bound
  <2> QED BY <1>1, <1>3, <2>1, <2>2, CardFacts, CardInv, SameCards DEF Tied
<1> QED BY <1>2, <1>3 DEF Save

LEMMA AdoptInv == ASSUME IInv, Adopt PROVE IInv'
<1>1. /\ UNCHANGED <<device, rows, lapsed, tokens, nvs, late, call, stamped, drawn>>
      /\ ask.step = "saved" /\ ask' = NoAsk /\ link' = [link EXCEPT !.portal = FALSE]
      /\ card' = [card EXCEPT !.binding = ask.binding, !.requested = FALSE, !.registered = FALSE, !.nonce = 0]
  BY DEF Adopt, Adopted, serverVars
<1>2. 0 \in Challenges BY CardFacts DEF Challenges
<1>3. /\ card' \in Cards /\ card'.binding = ask.binding /\ ~card'.requested
  BY <1>1, <1>2, CardFacts DEF Cards
<1>4. link' \in Links BY <1>1, CardFacts DEF Links
<1>5. /\ NoAsk \in Asks /\ NoAsk.step = "none" /\ NoAsk.reply = "none" /\ NoAsk.binding.token = 0
  BY Nothings DEF IInv
<1>6. ask.binding.token # 0 BY <1>1 DEF IInv, Asking
<1>7. Asking' BY <1>1, <1>3, <1>5, <1>6 DEF Asking, Bound
<1> QED BY <1>1, <1>3, <1>4, <1>5, <1>7, CardFacts, CardInv, SameCards DEF Tied

-----------------------------------------------------------------------------
(* The uploader, the application, and power.                               *)

LEMMA CallInv == ASSUME IInv, Call \/ Authenticate \/ CallLost PROVE IInv'
<1>1. UNCHANGED <<device, rows, lapsed, tokens, card, nvs, link, ask, late, stamped, drawn>>
  BY DEF Call, Authenticate, CallLost, serverVars
<1>2. NoCall \in Calls /\ call \in Calls BY CardFacts, Nothings DEF IInv
<1>3. call' \in Calls
  <2>1. CASE Call
    <3>1. card.binding.token \in 0 .. tokens.issued BY CardFacts DEF Bindings
    <3> QED BY <2>1, <3>1 DEF Call, Calls
  <2>2. CASE Authenticate BY <1>2, <2>2 DEF Authenticate, Calls
  <2>3. CASE CallLost BY <1>2, <2>3 DEF CallLost
  <2> QED BY <2>1, <2>2, <2>3
<1>4. Asking' BY <1>1 DEF IInv, Asking, Bound
<1> QED BY <1>1, <1>3, <1>4, CardFacts, CardInv, SameCards

LEMMA EraseInv == ASSUME IInv, Erase PROVE IInv'
<1>1. /\ UNCHANGED <<device, rows, lapsed, tokens, card, link, ask, late, stamped, drawn>>
      /\ call' = [call EXCEPT !.step = "erased"]
      /\ nvs' = nvs \/ nvs' = [nvs EXCEPT !.token = 0, !.account = NoOne]
  BY DEF Erase, serverVars
<1>2. call' \in Calls BY <1>1, CardFacts DEF Calls
<1>3. nvs' \in Bindings /\ Tied(nvs')
  <2>1. CASE nvs' = nvs BY <2>1, CardFacts
  <2>2. CASE nvs' = [nvs EXCEPT !.token = 0, !.account = NoOne]
    <3>1. 0 \in 0 .. tokens.issued BY DEF IInv, Typed, Tokens
    <3>2. nvs' \in Bindings /\ nvs'.token = 0 BY <2>2, <3>1, CardFacts DEF Bindings
    <3> QED BY <3>2 DEF Tied
  <2> QED BY <1>1, <2>1, <2>2
<1>4. Asking' BY <1>1 DEF IInv, Asking, Bound
<1> QED BY <1>1, <1>2, <1>3, <1>4, CardFacts, CardInv, SameCards

(* A dead token goes; where nobody has asked for a challenge, one is drawn. *)
LEMMA RepairInv == ASSUME IInv, Repair PROVE IInv'
<1>1. /\ UNCHANGED <<device, lapsed, tokens, nvs, link, ask, late, stamped>> /\ call' = NoCall
      /\ card' = Repaired(card)
      /\ IF Repaired(card).nonce = card.nonce THEN NotDrawn ELSE Drawn
  BY DEF Repair
<1>2. call' \in Calls BY <1>1, Nothings DEF IInv
<1>3. PICK b : b = [card.binding EXCEPT !.token = 0, !.account = NoOne] OBVIOUS
<1>4. b \in Bindings /\ b.token = 0
  <2>1. 0 \in 0 .. tokens.issued BY DEF IInv, Typed, Tokens
  <2> QED BY <1>3, <2>1, CardFacts DEF Bindings
<1>5. PICK c : c = Forgotten(card) /\ c = [card EXCEPT !.binding = b] BY <1>3 DEF Forgotten
<1>6. c \in Cards /\ c.binding = b /\ c.nonce = card.nonce /\ c.requested = card.requested
  BY <1>4, <1>5, CardFacts DEF Cards
<1>7. CASE card.requested
  <2>1. card' = c /\ NotDrawn BY <1>1, <1>5, <1>6, <1>7 DEF Repaired
  <2>2. UNCHANGED <<drawn, rows>> BY <2>1 DEF NotDrawn
  <2>3. card' \in Cards' BY <1>1, <1>6, <2>1, <2>2, SameCards
  <2>4. card.nonce # 0 BY <1>7 DEF IInv, Asking
  <2>5. Asking' BY <1>1, <1>6, <2>1, <2>4 DEF IInv, Asking, Bound
  <2>6. Tied(card'.binding) BY <1>4, <1>6, <2>1 DEF Tied
  <2> QED BY <1>1, <1>2, <2>2, <2>3, <2>5, <2>6, CardFacts, CardInv
<1>8. CASE ~card.requested
  <2>1. card' = [Draw(c) EXCEPT !.requested = TRUE] BY <1>1, <1>5, <1>8 DEF Repaired
  <2>2. card'.nonce = drawn + 1 /\ drawn + 1 # card.nonce
    <3>1. card'.nonce = drawn + 1 BY <1>6, <2>1 DEF Draw, Cards
    <3>2. card.nonce \in 0 .. drawn /\ drawn \in Nat BY CardFacts DEF Challenges
    <3> QED BY <3>1, <3>2
  <2>3. Drawn BY <1>1, <2>2
  <2>4. card' \in Cards' /\ card'.nonce # 0 /\ card'.binding = b BY <1>1, <1>6, <2>1, <2>3, DrawFacts
  <2>5. Asking' BY <1>1, <2>4 DEF IInv, Asking, Bound
  <2>6. Tied(card'.binding) BY <1>4, <2>4 DEF Tied
  <2> QED BY <1>1, <1>2, <2>3, <2>4, <2>5, <2>6, CardFacts, CardInv
<1> QED BY <1>7, <1>8

LEMMA PowerInv == ASSUME IInv, PowerFails PROVE IInv'
<1>1. /\ UNCHANGED <<device, rows, lapsed, tokens, nvs, stamped, drawn>>
      /\ card' = Booted /\ ask' = NoAsk /\ call' = NoCall
      /\ link' = [link EXCEPT !.online = FALSE, !.checked = FALSE, !.pending = FALSE, !.portal = FALSE]
  BY DEF PowerFails, serverVars
<1>2. late' \subseteq Lates BY LateFacts DEF PowerFails
<1>3. /\ NoAsk \in Asks /\ NoAsk.step = "none" /\ NoAsk.reply = "none" /\ NoAsk.binding.token = 0
      /\ NoCall \in Calls
  BY Nothings DEF IInv
<1>4. link' \in Links /\ ~link'.portal /\ ~link'.pending BY <1>1, CardFacts DEF Links
<1>5. card' \in Cards /\ card'.binding = nvs /\ ~card'.requested
  <2>1. 0 \in Challenges BY CardFacts DEF Challenges
  <2> QED BY <1>1, <2>1, CardFacts DEF Booted, Cards
<1>6. Asking' BY <1>1, <1>3, <1>4, <1>5 DEF Asking
<1> QED BY <1>1, <1>2, <1>3, <1>4, <1>5, <1>6, CardFacts, CardInv, SameCards DEF Tied

LEMMA RecordInv == ASSUME IInv, Record PROVE IInv'
<1>1. /\ UNCHANGED <<device, rows, lapsed, tokens, card, nvs, link, ask, late, call, drawn>>
      /\ card.binding.token # 0
      /\ stamped' = stamped \union {<<card.binding.generation, card.binding.account>>}
  BY DEF Record, serverVars, Bound
<1>2. /\ card.binding.generation \in 1 .. device.generation /\ card.binding.account \in Accounts
      /\ card.binding.generation = device.generation => card.binding.account = device.owner
  BY <1>1, CardFacts DEF Tied, Bindings
<1>3. /\ Bindings' = Bindings /\ Tokens' = Tokens /\ Calls' = Calls /\ Challenges' = Challenges
  BY <1>1 DEF Bindings, Tokens, Calls, Challenges
<1>4. Cards' = Cards /\ Asks' = Asks /\ Lates' = Lates BY <1>1, <1>3 DEF Cards, Asks, Lates
<1>5. stamped' \subseteq (1 .. device'.generation) \X Accounts BY <1>1, <1>2 DEF IInv, Typed
<1>6. Typed' BY <1>1, <1>3, <1>4, <1>5 DEF IInv, Typed
<1>7. Owned' /\ Asking' BY <1>1 DEF IInv, Owned, Asking, Bound
<1>8. \A b : Tied(b) <=> Tied(b)' BY <1>1 DEF Tied
<1>9. Ties' BY <1>1, <1>8 DEF IInv, Ties
<1>10. Stamps' BY <1>1, <1>2 DEF IInv, Stamps
<1> QED BY <1>6, <1>7, <1>9, <1>10 DEF IInv

-----------------------------------------------------------------------------
(* The account and the clock of the server.  A generation begins whenever  *)
(* the owner changes, so what was bound or recorded before is not of it.   *)

LEMMA ServerInv ==
  ASSUME IInv, UNCHANGED <<card, nvs, link, ask, late, call, stamped, drawn>>,
         lapsed' \subseteq 1 .. drawn, rows' \in [1 .. drawn -> States], device' \in Devices,
         \/ device'.generation = device.generation /\ device'.owner = device.owner
         \/ device'.generation = device.generation + 1,
         \/ tokens' = tokens
         \/ tokens' = [tokens EXCEPT !.live = 0],
         Owned'
  PROVE  IInv'
<1> USE DEF IInv
<1>1. /\ tokens \in Tokens /\ tokens.live \in {0, tokens.issued} /\ tokens.issued \in Nat
      /\ device.generation \in Nat /\ device'.generation \in Nat
  BY DEF Typed, Tokens, Devices
<1>2. 0 .. device.generation \subseteq 0 .. device'.generation
      /\ 1 .. device.generation \subseteq 1 .. device'.generation
  BY <1>1
<1>3. /\ tokens' \in Tokens /\ tokens'.live \in {0, tokens.live}
      /\ tokens'.issued = tokens.issued /\ tokens'.generation = tokens.generation
  BY <1>1 DEF Tokens
<1>4. tokens' \in Tokens' BY <1>2, <1>3 DEF Tokens
<1>5. Bindings \subseteq Bindings' /\ Calls' = Calls /\ Challenges' = Challenges
  BY <1>2, <1>3 DEF Bindings, Calls, Challenges
<1>6. Cards \subseteq Cards' /\ Asks \subseteq Asks' /\ Lates' = Lates BY <1>5 DEF Cards, Asks, Lates
<1>7. Typed'
  <2>1. /\ nvs' \in Bindings' /\ card' \in Cards' /\ link' \in Links /\ ask' \in Asks'
        /\ call' \in Calls' /\ late' \subseteq Lates'
    BY <1>5, <1>6, CardFacts
  <2>2. stamped' \subseteq (1 .. device'.generation) \X Accounts BY <1>2 DEF Typed
  <2>3. tokens'.live \in {0, tokens'.issued} BY <1>1, <1>3
  <2>4. drawn' \in Nat /\ rows' \in [1 .. drawn' -> States] /\ lapsed' \subseteq 1 .. drawn' BY CardFacts
  <2> QED BY <1>4, <2>1, <2>2, <2>3, <2>4 DEF Typed
<1>8. /\ Tied(card.binding) /\ card.binding \in Bindings
      /\ Tied(nvs) /\ nvs \in Bindings
      /\ Tied(ask.binding) /\ ask.binding \in Bindings
  BY CardFacts
<1>9. ASSUME NEW b \in Bindings, Tied(b), b.token # 0
      PROVE  /\ b.account \in Accounts /\ b.generation > 0
             /\ b.token = tokens'.live => b.generation = tokens'.generation
             /\ b.generation = device'.generation => b.account = device'.owner
  <2>1. b.generation \in 0 .. device.generation BY DEF Bindings
  <2>2. b.generation = device'.generation => b.account = device'.owner
    BY <1>1, <1>9, <2>1 DEF Tied
  <2>3. b.token = tokens'.live => b.generation = tokens'.generation BY <1>3, <1>9 DEF Tied
  <2> QED BY <1>9, <2>2, <2>3 DEF Tied
<1>10. Ties'
  <2>1. Tied(card.binding)' BY <1>8, <1>9 DEF Tied
  <2>2. Tied(nvs)' BY <1>8, <1>9 DEF Tied
  <2>3. Tied(ask.binding)' BY <1>8, <1>9 DEF Tied
  <2> QED BY <2>1, <2>2, <2>3 DEF Ties
<1>11. Stamps'
  <2>1. ASSUME NEW p \in stamped, p[1] = device'.generation PROVE p[2] = device'.owner
    <3>1. p[1] \in 1 .. device.generation BY DEF Typed
    <3> QED BY <1>1, <2>1, <3>1 DEF Stamps
  <2> QED BY <2>1 DEF Stamps
<1>12. Asking' BY DEF Asking, Bound
<1> QED BY <1>7, <1>10, <1>11, <1>12

LEMMA ClaimInv == ASSUME IInv, NEW a \in Accounts, NEW n \in DOMAIN rows, Claim(a, n) PROVE IInv'
<1> USE PairingAssumption
<1>1. /\ UNCHANGED <<lapsed, tokens, card, nvs, link, ask, late, call, stamped, drawn>>
      /\ device.owner \in {NoOne, a} /\ rows' = [rows EXCEPT ![n] = "claimed"]
      /\ device' = [owner |-> a, generation |-> device.generation + (IF device.owner = NoOne THEN 1 ELSE 0)]
  BY DEF Claim, MayClaim
<1>2. device.generation \in Nat /\ (device.owner # NoOne => device.generation > 0)
  BY DEF IInv, Typed, Devices, Owned
<1>3. /\ device'.owner = a /\ a # NoOne /\ device' \in Devices /\ device'.generation > 0
      /\ \/ device'.generation = device.generation /\ device'.owner = device.owner
         \/ device'.generation = device.generation + 1
  BY <1>1, <1>2 DEF Devices
<1>4. rows' \in [1 .. drawn -> States] BY <1>1 DEF IInv, Typed, States, Active
<1>5. Owned' BY <1>3 DEF Owned
<1>6. lapsed' \subseteq 1 .. drawn BY <1>1 DEF IInv, Typed
<1> QED BY <1>1, <1>3, <1>4, <1>5, <1>6, ServerInv

LEMMA UnbindInv == ASSUME IInv, Unbind PROVE IInv'
<1>1. /\ UNCHANGED <<lapsed, card, nvs, link, ask, late, call, stamped, drawn>>
      /\ device' = [owner |-> NoOne, generation |-> device.generation + 1]
      /\ tokens' = [tokens EXCEPT !.live = 0]
      /\ rows' = [n \in DOMAIN rows |-> IF State(n) \in Active THEN "revoked" ELSE State(n)]
  BY DEF Unbind, Freed, UnboundRows
<1>2. device.generation \in Nat /\ rows \in [1 .. drawn -> States] BY DEF IInv, Typed, Devices
<1>3. device' \in Devices /\ device'.generation = device.generation + 1 /\ device'.owner = NoOne
  BY <1>1, <1>2 DEF Devices
<1>4. \A n \in 1 .. drawn : rows'[n] = IF rows[n] \in Active THEN "revoked" ELSE rows[n]
  BY <1>1, <1>2 DEF State
<1>5. rows' \in [1 .. drawn -> States] BY <1>1, <1>2 DEF State, States
<1>6. Owned' BY <1>1, <1>3, <1>4 DEF Owned, Active
<1>7. lapsed' \subseteq 1 .. drawn BY <1>1 DEF IInv, Typed
<1> QED BY <1>1, <1>3, <1>5, <1>6, <1>7, ServerInv

LEMMA ExpireInv == ASSUME IInv, NEW n \in DOMAIN rows, Expire(n) PROVE IInv'
<1>1. /\ UNCHANGED <<device, rows, tokens, card, nvs, link, ask, late, call, stamped, drawn>>
      /\ lapsed' = lapsed \union {n}
  BY DEF Expire
<1>2. rows' \in [1 .. drawn -> States] /\ lapsed' \subseteq 1 .. drawn /\ device' \in Devices
  BY <1>1 DEF IInv, Typed
<1>3. Owned' BY <1>1 DEF IInv, Owned
<1> QED BY <1>1, <1>2, <1>3, ServerInv

LEMMA StutterInv == ASSUME IInv, UNCHANGED vars PROVE IInv'
<1>1. UNCHANGED <<device, rows, lapsed, tokens, card, nvs, link, ask, late, call, stamped, drawn>>
  BY DEF vars
<1>2. Asking' BY <1>1 DEF IInv, Asking, Bound
<1> QED BY <1>1, <1>2, CardFacts, CardInv, SameCards

-----------------------------------------------------------------------------
LEMMA NextInv == ASSUME IInv, [Next]_vars PROVE IInv'
<1>1. CASE \/ EnterPairing \/ ExitPairing \/ CandidateUp
           \/ Provision \/ CandidateFails \/ Reconnect \/ LinkDrops \/ CheckContract
  BY <1>1, EnterInv, ExitInv, CandidateUpInv, WifiInv
<1>2. CASE Ask \/ Serve \/ TimeOut \/ ServeLate \/ Restart \/ Hear \/ Save \/ Adopt
  BY <1>2, AskInv, ServeInv, TimeOutInv, ServeLateInv, RestartInv, HearInv, SaveInv, AdoptInv
<1>3. CASE Call \/ Authenticate \/ CallLost \/ Erase \/ Repair \/ Record \/ PowerFails
  BY <1>3, CallInv, EraseInv, RepairInv, RecordInv, PowerInv
<1>4. CASE Claims BY <1>4, ClaimInv DEF Claims
<1>5. CASE Unbind BY <1>5, UnbindInv
<1>6. CASE Expires BY <1>6, ExpireInv DEF Expires
<1>7. CASE UNCHANGED vars BY <1>7, StutterInv
<1> QED BY <1>1, <1>2, <1>3, <1>4, <1>5, <1>6, <1>7 DEF Next

LEMMA SpecInv == Spec => []IInv
BY InitInv, NextInv, PTL DEF Spec

(* The types of everything, and that the card is never ahead of the server *)
(* in tokens, challenges and generations of the binding.                   *)
THEOREM TypeCorrect == Spec => []TypeOK
<1>1. IInv => TypeOK
  <2> SUFFICES ASSUME IInv PROVE TypeOK OBVIOUS
  <2>1. Lates \subseteq [step : {"start", "status"}, nonce : Challenges]
    <3>1. 1 .. drawn \subseteq Challenges BY CardFacts DEF Challenges
    <3> QED BY <3>1 DEF Lates
  <2>2. late \subseteq [step : {"start", "status"}, nonce : Challenges] BY <2>1, CardFacts
  <2> QED BY <2>2 DEF IInv, Typed, TypeOK, Devices, States, Tokens, Cards, Links, Asks, Calls
<1> QED BY <1>1, SpecInv, PTL

(* Between the recording and the upload the card may be given up, claimed  *)
(* by somebody else, lose tokens, answers and power: while the server      *)
(* accepts its token, what it recorded for this binding is the owner's.    *)
THEOREM NeverHandedOver == Spec => []NotHandedOver
<1>1. IInv => NotHandedOver
  <2> SUFFICES ASSUME IInv, Accepts(card.binding.token),
                      NEW p \in stamped, p[1] = card.binding.generation
               PROVE  p[2] = device.owner
    BY DEF NotHandedOver
  <2>1. card.binding.generation = device.generation BY CardFacts DEF Accepts, Tied
  <2> QED BY <2>1 DEF IInv, Stamps
<1> QED BY <1>1, SpecInv, PTL
=============================================================================
