---------------------------- MODULE KeysetsProofs ----------------------------
(***************************************************************************)
(* What a vault holds was signed by the keys it has pinned, whatever the   *)
(* kiosks, denominations and device keys.                                  *)
(*                                                                         *)
(* Trust is inductive.  HeldIsPinned is not by itself: a topup compares the*)
(* signatures it gets with the keys it was offered when it began, so that  *)
(* these have to be the pinned ones for as long as it runs (OfferPinned).  *)
(***************************************************************************)
EXTENDS Keysets, TLAPS

(* What a state holds is pinned there, or disowned. *)
Covered(state, gone) ==
  \A c \in Holds(state) : Pinned(state)[c.denom] = c.key \/ c \in gone

Call ==
  [op : {"idle"}] \cup [op : {"topup", "keep"}, offer : Offers]
    \cup [op : {"swap"}, first : BOOLEAN]

TypeOK == mem \in FlashState /\ flash \in FlashState /\ call \in Call

OfferPinned ==
  call.op \in {"topup", "keep"} =>
    \A d \in Denom : call.offer[d] # None => Pinned(mem)[d] = call.offer[d]

SwapPending == call.op = "swap" => mem.pending # None

Trust ==
  /\ TypeOK
  /\ OfferPinned
  /\ SwapPending
  /\ Covered(mem, disowned)
  /\ Covered(flash, disowned)

-----------------------------------------------------------------------------
(* What a state holds are coins. *)
LEMMA HeldKinds ==
  ASSUME NEW state \in FlashState
  PROVE  Holds(state) \subseteq Kind
BY DEF Holds, FlashState, Swap

(* What a kiosk offers are its own keys. *)
LEMMA FetchedOffers ==
  ASSUME NEW k \in Kiosk, NEW offer \in Fetched(k)
  PROVE  offer \in Offers
BY DEF Fetched, Offer, Offers

(* Pinning what is offered touches only the pins, and pins it. *)
LEMMA Pins ==
  ASSUME NEW state \in FlashState, NEW offer \in Offers
  PROVE  /\ WithKeysets(state, offer) \in FlashState
         /\ Holds(WithKeysets(state, offer)) = Holds(state)
         /\ WithKeysets(state, offer).pending = state.pending
         /\ \A d \in Denom :
              Pinned(WithKeysets(state, offer))[d] =
                IF offer[d] = None THEN Pinned(state)[d] ELSE offer[d]
<1> DEFINE next == WithKeysets(state, offer)
<1>1. next \in FlashState
  BY KeysetsAssumption DEF WithKeysets, FlashState, Offers
<1>2. next.coins = state.coins /\ next.pending = state.pending
  BY DEF WithKeysets, FlashState
<1>3. Holds(next) = Holds(state)
  BY <1>2 DEF Holds
<1>4. ASSUME NEW d \in Denom
      PROVE  Pinned(next)[d] = IF offer[d] = None THEN Pinned(state)[d] ELSE offer[d]
  <2>1. next.keysets[d] = IF offer[d] = None THEN state.keysets[d] ELSE offer[d]
    BY DEF WithKeysets, FlashState, Offers
  <2>2. next.trusted = IF offer[Legacy] = None THEN state.trusted ELSE offer[Legacy]
    BY DEF WithKeysets, FlashState
  <2> QED BY <2>1, <2>2 DEF Pinned
<1> QED BY <1>1, <1>2, <1>3, <1>4

(* Pins that the check allows do not disown anything.                      *)
LEMMA AllowedPins ==
  ASSUME NEW state \in FlashState, NEW offer \in Offers, NEW gone,
         MayUse(state, offer), Covered(state, gone)
  PROVE  Covered(WithKeysets(state, offer), gone)
<1> SUFFICES ASSUME NEW c \in Holds(state), c \notin gone
             PROVE  Pinned(WithKeysets(state, offer))[c.denom] = c.key
  BY Pins DEF Covered
<1>1. c.denom \in Denom /\ c.key \in Kiosk
  BY HeldKinds DEF Kind
<1>2. Pinned(state)[c.denom] = c.key
  BY DEF Covered
<1>3. ~ NothingPinned(state)
  BY <1>1, <1>2, KeysetsAssumption DEF NothingPinned
<1>4. offer[c.denom] # None => Pinned(state)[c.denom] = offer[c.denom]
  BY <1>1, <1>3 DEF MayUse
<1> QED
  BY <1>1, <1>2, <1>4, Pins

(* Pins depend on the pins alone. *)
LEMMA SamePins ==
  ASSUME NEW s, NEW t, s.keysets = t.keysets, s.trusted = t.trusted
  PROVE  Pinned(s) = Pinned(t)
BY DEF Pinned

(* Coins of the pinned keys may join. *)
LEMMA CoinsJoin ==
  ASSUME NEW state \in FlashState, NEW kinds \in SUBSET Kind, NEW gone,
         Covered(state, gone),
         \A c \in kinds : Pinned(state)[c.denom] = c.key
  PROVE  /\ WithCoins(state, kinds) \in FlashState
         /\ WithCoins(state, kinds).pending = state.pending
         /\ Pinned(WithCoins(state, kinds)) = Pinned(state)
         /\ Covered(WithCoins(state, kinds), gone)
<1> DEFINE next == WithCoins(state, kinds)
<1>1. next \in FlashState /\ next.coins = state.coins \cup kinds
      /\ next.pending = state.pending
  BY DEF WithCoins, FlashState
<1>2. next.keysets = state.keysets /\ next.trusted = state.trusted
  BY DEF WithCoins, FlashState
<1>3. Pinned(next) = Pinned(state)
  BY <1>2, SamePins
<1>4. Holds(next) = Holds(state) \cup kinds
  BY <1>1 DEF Holds
<1> QED
  BY <1>1, <1>3, <1>4 DEF Covered

(* What remains after coins have gone, or have moved into or out of a swap,*)
(* is still covered when what is forgotten is not held any more.           *)
LEMMA Remains ==
  ASSUME NEW state \in FlashState, NEW next \in FlashState, NEW gone,
         Covered(state, gone), Pinned(next) = Pinned(state),
         Holds(next) \subseteq Holds(state)
  PROVE  Covered(next, gone \cap Holds(next))
BY DEF Covered

(* A swap that has ended leaves its coins, or nothing. *)
LEMMA SwapEnds ==
  ASSUME NEW state \in FlashState
  PROVE  LET next == [state EXCEPT !.pending = None]
         IN  /\ next \in FlashState
             /\ Pinned(next) = Pinned(state)
             /\ Holds(next) \subseteq Holds(state)
<1> DEFINE next == [state EXCEPT !.pending = None]
<1>1. /\ next \in FlashState
      /\ next.keysets = state.keysets /\ next.trusted = state.trusted
      /\ next.coins = state.coins /\ next.pending = None
  BY DEF FlashState
<1>2. Pinned(next) = Pinned(state)
  BY <1>1, SamePins
<1>3. Holds(next) \subseteq Holds(state)
  BY <1>1 DEF Holds
<1> QED BY <1>1, <1>2, <1>3

-----------------------------------------------------------------------------
LEMMA TrustInit == Init => Trust
<1> SUFFICES ASSUME Init PROVE Trust
  OBVIOUS
<1>1. PICK k \in Kiosk \cup {None} : flash = [Empty EXCEPT !.trusted = k]
  BY DEF Init
<1>2. /\ flash \in FlashState /\ flash.coins = {} /\ flash.pending = None
  BY <1>1 DEF Empty, FlashState, Offers
<1>3. Holds(flash) = {}
  BY <1>2 DEF Holds
<1>4. mem = flash /\ call \in Call /\ call.op = "idle"
  BY DEF Init, Idle, Call
<1> QED
  BY <1>2, <1>3, <1>4 DEF Trust, TypeOK, OfferPinned, SwapPending, Covered

(* Steps that save a new state and adopt it. *)
LEMMA Adopted ==
  ASSUME Trust, NEW next \in FlashState, SaveAndAdopt(next),
         Covered(next, disowned), call' \in Call,
         call'.op \in {"topup", "keep"} => FALSE,
         call'.op = "swap" => next.pending # None
  PROVE  Trust'
<1>1. mem' = next /\ flash' = next /\ disowned' = disowned \cap Holds(next)
  BY DEF SaveAndAdopt
<1>2. Covered(next, disowned \cap Holds(next))
  BY DEF Covered
<1> QED
  BY <1>1, <1>2 DEF Trust, TypeOK, OfferPinned, SwapPending, Covered

(* Steps that leave call idle and disowned alone. *)
LEMMA Settled ==
  ASSUME mem' \in FlashState, flash' \in FlashState, call' = Idle,
         Covered(mem', disowned'), Covered(flash', disowned')
  PROVE  Trust'
<1>1. call' \in Call /\ call'.op = "idle"
  BY DEF Idle, Call
<1> QED
  BY <1>1 DEF Trust, TypeOK, OfferPinned, SwapPending, Covered

LEMMA PinStep ==
  ASSUME Trust, NEW k \in Kiosk, NEW force \in BOOLEAN, Pin(k, force)
  PROVE  Trust'
<1>1. /\ call' = Idle /\ mem' = flash'
      /\ mem \in FlashState /\ Covered(mem, disowned)
  BY DEF Pin, NewProcess, Process, Trust, TypeOK
<1>2. PICK offer \in Fetched(k) :
        (force \/ MayUse(mem, offer)) /\ flash' = WithKeysets(mem, offer)
  BY DEF Pin, Process
<1>3. offer \in Offers
  BY FetchedOffers
<1>4. flash' \in FlashState
  BY <1>1, <1>2, <1>3, Pins
<1>5. Covered(flash', disowned')
  <2>1. CASE force
    BY <2>1 DEF Pin, Covered
  <2>2. CASE ~ force
    BY <2>2, <1>1, <1>2, <1>3, AllowedPins DEF Pin
  <2> QED BY <2>1, <2>2
<1> QED BY <1>1, <1>4, <1>5, Settled

(* A key for the device touches no coins and no pins. *)
LEMMA DeviceDrawn ==
  ASSUME NEW state \in FlashState, NEW x \in DeviceKey, NEW gone,
         Covered(state, gone)
  PROVE  LET next == [state EXCEPT !.device = x]
         IN  /\ next \in FlashState /\ Pinned(next) = Pinned(state)
             /\ next.pending = state.pending /\ Covered(next, gone)
<1> DEFINE next == [state EXCEPT !.device = x]
<1>1. /\ next \in FlashState
      /\ next.keysets = state.keysets /\ next.trusted = state.trusted
      /\ next.coins = state.coins /\ next.pending = state.pending
  BY DEF FlashState
<1>2. Pinned(next) = Pinned(state)
  BY <1>1, SamePins
<1>3. Holds(next) = Holds(state)
  BY <1>1 DEF Holds
<1> QED BY <1>1, <1>2, <1>3 DEF Covered

LEMMA ShowDeviceStep ==
  ASSUME Trust, NEW x \in DeviceKey, ShowDevice(x)
  PROVE  Trust'
<1>1. /\ call' = Idle /\ disowned' = disowned /\ mem' \in {mem, [mem EXCEPT !.device = x]}
      /\ flash' = mem' /\ mem \in FlashState /\ Covered(mem, disowned)
  BY DEF ShowDevice, NewProcess, Process, Trust, TypeOK
<1>2. mem' \in FlashState /\ Covered(mem', disowned')
  BY <1>1, DeviceDrawn
<1> QED BY <1>1, <1>2, Settled

LEMMA ReceiveFirstStep ==
  ASSUME Trust, NEW k \in Kiosk, NEW token \in Token, ReceiveFirst(k, token)
  PROVE  Trust'
<1>1. /\ call' = Idle /\ disowned' = disowned /\ mem' = flash'
      /\ mem \in FlashState /\ Covered(mem, disowned) /\ NothingPinned(mem)
      /\ token \in SUBSET Kind
  BY DEF ReceiveFirst, NewProcess, Process, Trust, TypeOK, Token
<1>2. PICK offer \in Fetched(k) :
        LET pinned == WithKeysets(mem, offer)
        IN  \/ flash' \in {mem, pinned}
            \/ Verified(token, pinned) /\ flash' = WithCoins(pinned, token)
  BY DEF ReceiveFirst, Process
<1>3. offer \in Offers /\ MayUse(mem, offer)
  BY <1>1, FetchedOffers DEF MayUse
<1> DEFINE pinned == WithKeysets(mem, offer)
<1>4. pinned \in FlashState /\ Covered(pinned, disowned)
  BY <1>1, <1>3, Pins, AllowedPins
<1> HIDE DEF pinned
<1>5. flash' \in FlashState /\ Covered(flash', disowned)
  <2>1. CASE flash' \in {mem, pinned}
    BY <2>1, <1>1, <1>4
  <2>2. CASE Verified(token, pinned) /\ flash' = WithCoins(pinned, token)
    BY <2>2, <1>1, <1>4, CoinsJoin DEF Verified
  <2> QED BY <1>2, <2>1, <2>2 DEF pinned
<1> QED BY <1>1, <1>5, Settled

LEMMA ReceiveStep ==
  ASSUME Trust, NEW token \in Token, Receive(token)
  PROVE  Trust'
<1>1. /\ call' = Idle /\ disowned' = disowned
      /\ mem' = WithCoins(mem, token) /\ flash' \in {flash, mem'}
      /\ mem \in FlashState /\ Covered(mem, disowned)
      /\ flash \in FlashState /\ Covered(flash, disowned)
      /\ token \in SUBSET Kind /\ \A c \in token : Pinned(mem)[c.denom] = c.key
  BY DEF Receive, Verified, Trust, TypeOK, Token
<1>2. mem' \in FlashState /\ Covered(mem', disowned)
  BY <1>1, CoinsJoin
<1> QED BY <1>1, <1>2, Settled

LEMMA StartTopupStep ==
  ASSUME Trust, NEW k \in Kiosk, StartTopup(k)
  PROVE  Trust'
<1>1. PICK offer \in Fetched(k) :
        /\ MayUse(mem, offer)
        /\ mem' = IF NothingPinned(mem) THEN WithKeysets(mem, offer) ELSE mem
        /\ \/ /\ flash' = IF NothingPinned(mem) THEN mem' ELSE flash
              /\ call' = [op |-> "topup", offer |-> offer]
           \/ UNCHANGED <<flash, call>>
  BY DEF StartTopup
<1>2. /\ mem \in FlashState /\ Covered(mem, disowned)
      /\ flash \in FlashState /\ Covered(flash, disowned)
      /\ offer \in Offers /\ call = Idle /\ disowned' = disowned
  BY FetchedOffers DEF StartTopup, Trust, TypeOK
<1>3. mem' \in FlashState /\ Covered(mem', disowned)
  BY <1>1, <1>2, Pins, AllowedPins
<1>4. \A d \in Denom : offer[d] # None => Pinned(mem')[d] = offer[d]
  BY <1>1, <1>2, Pins DEF MayUse
<1>5. CASE UNCHANGED <<flash, call>>
  BY <1>5, <1>2, <1>3, Settled
<1>6. CASE /\ flash' = IF NothingPinned(mem) THEN mem' ELSE flash
           /\ call' = [op |-> "topup", offer |-> offer]
  <2>1. call' \in Call /\ call'.op = "topup" /\ call'.offer = offer
    BY <1>2, <1>6 DEF Call
  <2>2. flash' \in FlashState /\ Covered(flash', disowned)
    BY <1>2, <1>3, <1>6
  <2> QED
    BY <1>2, <1>3, <1>4, <2>1, <2>2
    DEF Trust, TypeOK, OfferPinned, SwapPending, Covered, Pinned
<1> QED BY <1>1, <1>5, <1>6

LEMMA DrawDeviceStep ==
  ASSUME Trust, NEW x \in DeviceKey, DrawDevice(x)
  PROVE  Trust'
<1>1. /\ mem \in FlashState /\ Covered(mem, disowned)
      /\ flash \in FlashState /\ Covered(flash, disowned)
      /\ mem' = [mem EXCEPT !.device = x] /\ disowned' = disowned
      /\ call.op = "topup" /\ call \in Call
      /\ \/ flash' = mem' /\ call' = call
         \/ flash' = flash /\ call' = Idle
  BY DEF DrawDevice, Trust, TypeOK
<1>2. mem' \in FlashState /\ Covered(mem', disowned) /\ Pinned(mem') = Pinned(mem)
  BY <1>1, DeviceDrawn
<1>3. CASE flash' = flash /\ call' = Idle
  BY <1>1, <1>2, <1>3, Settled
<1>4. CASE flash' = mem' /\ call' = call
  BY <1>1, <1>2, <1>4 DEF Trust, TypeOK, OfferPinned, SwapPending, Covered, Pinned
<1> QED BY <1>1, <1>3, <1>4

LEMMA AskSignatureStep ==
  ASSUME Trust, NEW k \in Kiosk, NEW d \in Denom, AskSignature(k, d)
  PROVE  Trust'
<1> DEFINE coin == [denom |-> d, key |-> k]
<1>1. /\ mem \in FlashState /\ Covered(mem, disowned)
      /\ call.op = "topup" /\ call \in Call /\ call.offer[d] # None
      /\ flash' = mem /\ disowned' = disowned
  BY DEF AskSignature, Trust, TypeOK
<1>2. Pinned(mem)[d] = call.offer[d]
  BY <1>1 DEF Trust, OfferPinned
<1>3. CASE mem' = mem /\ call' = Idle
  BY <1>1, <1>3, Settled
<1>4. CASE /\ call.offer[d] = k /\ mem' = WithCoins(mem, {coin})
           /\ call' = [call EXCEPT !.op = "keep"]
  <2>1. {coin} \in SUBSET Kind /\ \A c \in {coin} : Pinned(mem)[c.denom] = c.key
    BY <1>2, <1>4 DEF Kind
  <2>2. /\ mem' \in FlashState /\ Covered(mem', disowned)
        /\ Pinned(mem') = Pinned(mem)
    BY <1>1, <1>4, <2>1, CoinsJoin
  <2>3. call' \in Call /\ call'.op = "keep" /\ call'.offer = call.offer
    BY <1>1, <1>4 DEF Call
  <2> QED
    BY <1>1, <2>2, <2>3
    DEF Trust, TypeOK, OfferPinned, SwapPending, Covered, Pinned
<1> QED BY <1>3, <1>4 DEF AskSignature

LEMMA KeepProofStep ==
  ASSUME Trust, KeepProof
  PROVE  Trust'
<1>1. /\ mem' = mem /\ disowned' = disowned /\ flash' \in {mem, flash}
      /\ \/ call' = [call EXCEPT !.op = "topup"] \/ call' = Idle
      /\ call.op = "keep" /\ call \in Call
  BY DEF KeepProof, Trust, TypeOK
<1>2. CASE call' = Idle
  BY <1>1, <1>2, Settled DEF Trust, TypeOK
<1>3. CASE call' = [call EXCEPT !.op = "topup"]
  <2>1. call' \in Call /\ call'.op = "topup" /\ call'.offer = call.offer
    BY <1>1, <1>3 DEF Call
  <2> QED
    BY <1>1, <2>1 DEF Trust, TypeOK, OfferPinned, SwapPending, Covered, Pinned
<1> QED BY <1>1, <1>2, <1>3

(* Payment and change: what is held only shrinks. *)
LEMMA SpendStep ==
  ASSUME Trust, NEW kinds \in SUBSET mem.coins, Spend(kinds)
  PROVE  Trust'
<1> DEFINE next == [mem EXCEPT !.coins = @ \ kinds]
<1>1. /\ mem \in FlashState /\ Covered(mem, disowned) /\ call' = Idle
  BY DEF Spend, Trust, TypeOK
<1>2. /\ next \in FlashState
      /\ next.keysets = mem.keysets /\ next.trusted = mem.trusted
      /\ next.coins = mem.coins \ kinds /\ next.pending = mem.pending
  BY <1>1 DEF FlashState
<1>3. Pinned(next) = Pinned(mem) /\ Holds(next) \subseteq Holds(mem)
  BY <1>2, SamePins DEF Holds
<1>4. Covered(next, disowned)
  BY <1>1, <1>3 DEF Covered
<1>5. SaveAndAdopt(next)
  BY DEF Spend
<1>6. call' \in Call /\ call'.op = "idle"
  BY <1>1 DEF Idle, Call
<1> HIDE DEF next
<1> QED BY <1>2, <1>4, <1>5, <1>6, Adopted

LEMMA MakeChangeStep ==
  ASSUME Trust, NEW ins \in SUBSET mem.coins, NEW outs \in SUBSET Denom,
         MakeChange(ins, outs)
  PROVE  Trust'
<1>1. /\ mem \in FlashState /\ Covered(mem, disowned)
  BY DEF Trust, TypeOK
<1>2. PICK rest \in {mem.coins, mem.coins \ ins} :
        SaveAndAdopt([mem EXCEPT !.coins = rest,
                                 !.pending = [ins |-> ins, outs |-> outs]])
  BY DEF MakeChange
<1> DEFINE swap == [ins |-> ins, outs |-> outs]
           next == [mem EXCEPT !.coins = rest, !.pending = swap]
<1>3. swap \in Swap /\ swap.ins = ins /\ swap # None
  BY <1>1, KeysetsAssumption DEF Swap, FlashState
<1> HIDE DEF swap
<1>4. /\ next \in FlashState
      /\ next.keysets = mem.keysets /\ next.trusted = mem.trusted
      /\ next.coins = rest /\ next.pending = swap
  BY <1>1, <1>3 DEF FlashState
<1>5. Pinned(next) = Pinned(mem) /\ Holds(next) \subseteq Holds(mem)
  BY <1>3, <1>4, SamePins DEF Holds
<1>6. Covered(next, disowned)
  BY <1>1, <1>5 DEF Covered
<1>7. SaveAndAdopt(next)
  BY <1>2 DEF swap
<1>8. call' \in Call /\ call'.op = "swap"
  BY DEF MakeChange, Call
<1> HIDE DEF next
<1> QED BY <1>3, <1>4, <1>6, <1>7, <1>8, Adopted

LEMMA TakeSwapStep ==
  ASSUME Trust, NEW k \in Kiosk, TakeSwap(k)
  PROVE  Trust'
<1>1. /\ mem \in FlashState /\ Covered(mem, disowned)
      /\ mem.pending # None /\ call' = Idle
      /\ \A c \in Signed(k) : Pinned(mem)[c.denom] = c.key
      /\ SaveAndAdopt([WithCoins(mem, Signed(k)) EXCEPT !.pending = None])
  BY DEF TakeSwap, Trust, TypeOK, SwapPending, Verified
<1>2. Signed(k) \in SUBSET Kind
  BY <1>1 DEF Signed, Kind, FlashState, Swap
<1> DEFINE full == WithCoins(mem, Signed(k))
           next == [full EXCEPT !.pending = None]
<1>3. full \in FlashState /\ Covered(full, disowned)
  BY <1>1, <1>2, CoinsJoin
<1> HIDE DEF full
<1>4. next \in FlashState /\ Covered(next, disowned)
  BY <1>3, SwapEnds DEF Covered
<1>5. call' \in Call /\ call'.op = "idle"
  BY <1>1 DEF Idle, Call
<1>6. SaveAndAdopt(next)
  BY <1>1 DEF full
<1> HIDE DEF next
<1> QED BY <1>4, <1>5, <1>6, Adopted

LEMMA AbandonStep ==
  ASSUME Trust, Abandon
  PROVE  Trust'
<1>1. /\ mem \in FlashState /\ Covered(mem, disowned)
      /\ mem.pending # None /\ call' = Idle
      /\ SaveAndAdopt([WithCoins(mem, mem.pending.ins) EXCEPT !.pending = None])
  BY DEF Abandon, Trust, TypeOK, SwapPending
<1> DEFINE full == WithCoins(mem, mem.pending.ins)
           next == [full EXCEPT !.pending = None]
<1>2. /\ full \in FlashState
      /\ full.keysets = mem.keysets /\ full.trusted = mem.trusted
      /\ full.coins = mem.coins \cup mem.pending.ins /\ full.pending = mem.pending
  BY <1>1 DEF WithCoins, FlashState, Swap
<1>3. Pinned(full) = Pinned(mem) /\ Holds(full) = Holds(mem)
  BY <1>1, <1>2, SamePins DEF Holds
<1> HIDE DEF full
<1>4. next \in FlashState /\ Covered(next, disowned)
  BY <1>1, <1>2, <1>3, SwapEnds DEF Covered
<1>5. call' \in Call /\ call'.op = "idle"
  BY <1>1 DEF Idle, Call
<1>6. SaveAndAdopt(next)
  BY <1>1 DEF full
<1> HIDE DEF next
<1> QED BY <1>4, <1>5, <1>6, Adopted

(* Empty memory covers anything, also over an old file. *)
LEMMA WipeStep ==
  ASSUME Trust, Wipe
  PROVE  Trust'
<1>1. /\ Empty \in FlashState /\ Holds(Empty) = {}
  BY DEF Empty, FlashState, Offers, Holds
<1>2. /\ mem' = Empty /\ flash' \in {flash, Empty} /\ call' = Idle
      /\ disowned' = disowned \cap Holds(flash')
      /\ flash \in FlashState /\ Covered(flash, disowned)
  BY DEF Wipe, Trust, TypeOK
<1>3. Covered(mem', disowned') /\ Covered(flash', disowned')
  BY <1>1, <1>2 DEF Covered
<1> QED BY <1>1, <1>2, <1>3, Settled

(* Steps after which no command runs, in a state that was there before.    *)
LEMMA QuietStep ==
  ASSUME Trust, mem' \in {mem, flash}, flash' = flash, disowned' = disowned,
         call' = Idle
  PROVE  Trust'
BY Settled DEF Trust, TypeOK

LEMMA RecoverStep ==
  ASSUME Trust, Recover
  PROVE  Trust'
<1>1. call' \in Call /\ call'.op = "swap"
  BY DEF Recover, Call
<1> QED
  BY <1>1 DEF Recover, Trust, TypeOK, OfferPinned, SwapPending, Covered

LEMMA TrustNext == Trust /\ [Next]_vars => Trust'
<1> SUFFICES ASSUME Trust, [Next]_vars PROVE Trust'
  OBVIOUS
<1>1. CASE UNCHANGED vars
  BY <1>1 DEF vars, Trust, TypeOK, OfferPinned, SwapPending, Covered, Pinned
<1>2. ASSUME NEW k \in Kiosk, StartTopup(k) \/ TakeSwap(k) PROVE Trust'
  BY <1>2, StartTopupStep, TakeSwapStep
<1>3. ASSUME NEW x \in DeviceKey, ShowDevice(x) \/ DrawDevice(x) PROVE Trust'
  BY <1>3, ShowDeviceStep, DrawDeviceStep
<1>4. ASSUME NEW kinds \in SUBSET mem.coins \ {{}}, Spend(kinds) PROVE Trust'
  BY <1>4, SpendStep
<1>5. ASSUME NEW ins \in SUBSET mem.coins \ {{}}, NEW outs \in SUBSET Denom \ {{}},
             MakeChange(ins, outs)
      PROVE  Trust'
  BY <1>5, MakeChangeStep
<1>6. CASE EndTopup \/ LeavePending
  BY <1>6, QuietStep DEF EndTopup, LeavePending
<1>7. CASE Restart
  BY <1>7, QuietStep DEF Restart
<1> QED
  BY <1>1, <1>2, <1>3, <1>4, <1>5, <1>6, <1>7, PinStep, ReceiveFirstStep,
     ReceiveStep, AskSignatureStep, KeepProofStep, RecoverStep, AbandonStep, WipeStep
  DEF Next

(* Whatever kiosks a vault meets and however a command is cut off, every   *)
(* coin it holds, in memory and on flash, and every input of its pending   *)
(* swap was signed by the key that is pinned for its denomination, except  *)
(* those whose key was replaced by `pin --force'.                          *)
THEOREM HeldIsPinnedAlways == Spec => []HeldIsPinned
<1>1. Trust => HeldIsPinned
  BY DEF Trust, Covered, HeldIsPinned
<1> QED
  BY <1>1, TrustInit, TrustNext, PTL DEF Spec

-----------------------------------------------------------------------------
(* No operation on coins or pins touches the device key.                   *)
LEMMA DeviceKept ==
  ASSUME NEW state \in FlashState, NEW offer, NEW kinds
  PROVE  /\ WithKeysets(state, offer).device = state.device
         /\ WithCoins(state, kinds).device = state.device
BY DEF WithKeysets, WithCoins, FlashState

(* Steps of which the file keeps its pins, takes those of memory or has    *)
(* none left.                                                              *)
Keeps ==
  \A d \in Denom :
    Pinned(mem)[d] = Pinned(flash)[d] /\ Pinned(flash)[d] # None
      => Pinned(flash')[d] \in {Pinned(flash)[d], None}

LEMMA KeepsSame ==
  ASSUME Pinned(flash') \in {Pinned(mem), Pinned(flash)}
  PROVE  Keeps
BY DEF Keeps

LEMMA KeepsFields ==
  ASSUME flash'.keysets = mem.keysets, flash'.trusted = mem.trusted
  PROVE  Keeps
BY SamePins, KeepsSame

LEMMA KeepsFirst ==
  ASSUME NothingPinned(mem)
  PROVE  Keeps
BY DEF Keeps, NothingPinned

LEMMA PinKeeps ==
  ASSUME Trust, NEW k \in Kiosk, NEW force \in BOOLEAN, Pin(k, force)
  PROVE  Keeps \/ Pin(k, TRUE)
<1>1. CASE force = TRUE
  BY <1>1
<1>2. CASE force = FALSE
  <2>1. PICK offer \in Fetched(k) :
          MayUse(mem, offer) /\ flash' = WithKeysets(mem, offer)
    BY <1>2 DEF Pin, Process
  <2>2. offer \in Offers /\ mem \in FlashState
    BY FetchedOffers DEF Trust, TypeOK
  <2>3. CASE NothingPinned(mem)
    BY <2>3, KeepsFirst
  <2>4. CASE ~ NothingPinned(mem)
    <3>1. \A d \in Denom : Pinned(flash')[d] = Pinned(mem)[d]
      BY <2>1, <2>2, <2>4, Pins DEF MayUse
    <3> QED BY <3>1 DEF Keeps
  <2> QED BY <2>3, <2>4
<1> QED BY <1>1, <1>2

LEMMA NextKeeps ==
  ASSUME Trust, [Next]_vars
  PROVE  Keeps \/ \E k \in Kiosk : Pin(k, TRUE)
<1>1. mem \in FlashState /\ flash \in FlashState
  BY DEF Trust, TypeOK
<1>2. ASSUME NEW k \in Kiosk, NEW force \in BOOLEAN, Pin(k, force)
      PROVE  Keeps \/ Pin(k, TRUE)
  BY <1>2, PinKeeps
<1>3. ASSUME NEW x \in DeviceKey, ShowDevice(x) \/ DrawDevice(x) PROVE Keeps
  <2>1. flash' = flash \/ flash' = [mem EXCEPT !.device = x]
    BY <1>3 DEF ShowDevice, DrawDevice, Process
  <2>2. CASE flash' = flash
    BY <2>2, KeepsSame
  <2>3. CASE flash' = [mem EXCEPT !.device = x]
    BY <1>1, <2>3, KeepsFields DEF FlashState
  <2> QED BY <2>1, <2>2, <2>3
<1>4. ASSUME NEW k \in Kiosk, NEW token \in Token, ReceiveFirst(k, token) PROVE Keeps
  BY <1>4, KeepsFirst DEF ReceiveFirst
<1>5. ASSUME NEW token \in Token, Receive(token) PROVE Keeps
  <2>1. CASE flash' = flash
    BY <2>1, KeepsSame
  <2>2. CASE flash' = WithCoins(mem, token)
    BY <1>1, <2>2, KeepsFields DEF WithCoins, FlashState
  <2> QED BY <1>5, <2>1, <2>2 DEF Receive
<1>6. ASSUME NEW k \in Kiosk, StartTopup(k) PROVE Keeps
  BY <1>6, KeepsFirst, KeepsSame DEF StartTopup
<1>7. ASSUME NEW k \in Kiosk, TakeSwap(k) PROVE Keeps
  <2>1. flash' = [WithCoins(mem, Signed(k)) EXCEPT !.pending = None]
    BY <1>7 DEF TakeSwap, SaveAndAdopt
  <2> QED BY <1>1, <2>1, KeepsFields DEF WithCoins, FlashState
<1>8. ASSUME NEW k \in Kiosk, NEW d \in Denom, AskSignature(k, d) PROVE Keeps
  BY <1>8, KeepsSame DEF AskSignature
<1>9. ASSUME NEW kinds \in SUBSET mem.coins \ {{}}, Spend(kinds) PROVE Keeps
  <2>1. flash' = [mem EXCEPT !.coins = mem.coins \ kinds]
    BY <1>1, <1>9 DEF Spend, SaveAndAdopt, FlashState
  <2> QED BY <1>1, <2>1, KeepsFields DEF WithCoins, FlashState
<1>10. ASSUME NEW ins \in SUBSET mem.coins \ {{}}, NEW outs \in SUBSET Denom \ {{}},
              MakeChange(ins, outs)
       PROVE  Keeps
  <2>1. PICK rest \in {mem.coins, mem.coins \ ins} :
          flash' = [mem EXCEPT !.coins = rest,
                               !.pending = [ins |-> ins, outs |-> outs]]
    BY <1>10 DEF MakeChange, SaveAndAdopt
  <2> QED BY <1>1, <2>1, KeepsFields DEF WithCoins, FlashState
<1>11. CASE Abandon
  <2>1. flash' = [WithCoins(mem, mem.pending.ins) EXCEPT !.pending = None]
    BY <1>11 DEF Abandon, SaveAndAdopt
  <2> QED BY <1>1, <2>1, KeepsFields DEF WithCoins, FlashState
<1>12. CASE KeepProof \/ EndTopup \/ Recover \/ LeavePending \/ Restart \/ UNCHANGED vars
  BY <1>12, KeepsSame DEF KeepProof, EndTopup, Recover, LeavePending, Restart, vars
<1>13. CASE Wipe
  <2>1. \A d \in Denom : Pinned(Empty)[d] = None
    BY DEF Empty, Pinned
  <2> QED BY <1>13, <2>1 DEF Wipe, Keeps
<1> QED
  BY <1>2, <1>3, <1>4, <1>5, <1>6, <1>7, <1>8, <1>9, <1>10, <1>11, <1>12, <1>13
  DEF Next

(* "keyset change refused until pin --force": no topup, receipt, swap,     *)
(* failed save or crash replaces a key that the vault has pinned.          *)
THEOREM OnlyForceReplacesAlways == Spec => OnlyForceReplaces
<1>1. Trust /\ [Next]_vars =>
        [\/ \A d \in Denom :
               Pinned(mem)[d] = Pinned(flash)[d] /\ Pinned(flash)[d] # None
                 => Pinned(flash')[d] \in {Pinned(flash)[d], None}
         \/ \E k \in Kiosk : Pin(k, TRUE)]_vars
  BY NextKeeps DEF Keeps
<1> QED
  BY <1>1, TrustInit, TrustNext, PTL DEF Spec, OnlyForceReplaces

-----------------------------------------------------------------------------
(* A device key that was shown is the one in memory as well as in the file.*)
Known ==
  /\ shown \subseteq DeviceKey
  /\ shown \subseteq {mem.device}
  /\ shown \subseteq {flash.device}

LEMMA KnownSame ==
  ASSUME Known, shown' = shown,
         mem'.device \in {mem.device, flash.device},
         flash'.device \in {mem.device, flash.device}
  PROVE  Known'
BY DEF Known

LEMMA KnownNext == Trust /\ Known /\ [Next]_vars => Known'
<1> SUFFICES ASSUME Trust, Known, [Next]_vars PROVE Known'
  OBVIOUS
<1>1. mem \in FlashState /\ flash \in FlashState
  BY DEF Trust, TypeOK
<1>2. mem.device = None => shown = {}
  BY KeysetsAssumption DEF Known
<1>3. ASSUME NEW k \in Kiosk, NEW force \in BOOLEAN, Pin(k, force) PROVE Known'
  BY <1>1, <1>3, DeviceKept, KnownSame DEF Pin, NewProcess, Process
<1>4. ASSUME NEW x \in DeviceKey, ShowDevice(x) PROVE Known'
  <2>1. CASE mem.device = x /\ UNCHANGED <<mem, flash>>
    BY <1>4, <2>1 DEF ShowDevice, NewProcess, Known
  <2>2. CASE mem.device = None /\ Process({[mem EXCEPT !.device = x]})
    <3>1. mem'.device = x /\ flash'.device = x
      BY <1>1, <2>2 DEF Process, FlashState
    <3> QED BY <1>2, <1>4, <2>2, <3>1 DEF ShowDevice, Known
  <2> QED BY <1>4, <2>1, <2>2 DEF ShowDevice
<1>5. ASSUME NEW x \in DeviceKey, DrawDevice(x) PROVE Known'
  BY <1>2, <1>5 DEF DrawDevice, Known
<1>6. ASSUME NEW k \in Kiosk, NEW token \in Token, ReceiveFirst(k, token) PROVE Known'
  <2>1. PICK offer \in Fetched(k) :
          LET pinned == WithKeysets(mem, offer)
          IN  flash' \in {mem, pinned, WithCoins(pinned, token)}
    BY <1>6 DEF ReceiveFirst, Process
  <2>2. offer \in Offers
    BY FetchedOffers
  <2>3. flash'.device = mem.device
    BY <1>1, <2>1, <2>2, DeviceKept, Pins
  <2> QED BY <1>6, <2>3, KnownSame DEF ReceiveFirst, Process
<1>7. ASSUME NEW token \in Token, Receive(token) PROVE Known'
  BY <1>1, <1>7, DeviceKept, KnownSame DEF Receive
<1>8. ASSUME NEW k \in Kiosk, StartTopup(k) PROVE Known'
  BY <1>1, <1>8, DeviceKept, KnownSame DEF StartTopup
<1>9. ASSUME NEW k \in Kiosk, NEW d \in Denom, AskSignature(k, d) PROVE Known'
  <2>1. mem.device \in DeviceKey /\ flash' = mem /\ shown' = shown \cup {mem.device}
    BY <1>1, <1>9 DEF AskSignature, FlashState
  <2>2. mem'.device = mem.device
    BY <1>1, <1>9, DeviceKept DEF AskSignature
  <2> QED BY <2>1, <2>2 DEF Known
<1>10. ASSUME NEW next, SaveAndAdopt(next), next.device = mem.device, shown' = shown
       PROVE  Known'
  BY <1>10, KnownSame DEF SaveAndAdopt
<1>11. ASSUME NEW k \in Kiosk, TakeSwap(k) PROVE Known'
  BY <1>1, <1>10, <1>11 DEF TakeSwap, WithCoins, FlashState
<1>12. ASSUME NEW kinds \in SUBSET mem.coins \ {{}}, Spend(kinds) PROVE Known'
  BY <1>1, <1>10, <1>12 DEF Spend, FlashState
<1>13. ASSUME NEW ins \in SUBSET mem.coins \ {{}}, NEW outs \in SUBSET Denom \ {{}},
              MakeChange(ins, outs)
       PROVE  Known'
  BY <1>1, <1>10, <1>13 DEF MakeChange, FlashState
<1>14. CASE Abandon
  BY <1>1, <1>10, <1>14 DEF Abandon, WithCoins, FlashState
<1>15. CASE KeepProof \/ EndTopup \/ Recover \/ LeavePending \/ Restart \/ UNCHANGED vars
  BY <1>15, KnownSame DEF KeepProof, EndTopup, Recover, LeavePending, Restart, vars
<1>16. CASE Wipe
  BY <1>16 DEF Wipe, Known
<1> QED
  BY <1>3, <1>4, <1>5, <1>6, <1>7, <1>8, <1>9, <1>11, <1>12, <1>13, <1>14, <1>15, <1>16
  DEF Next

(* A device key that quota may have been given to is never lost to a crash *)
(* or to a save that failed: it is the one in the state file.              *)
THEOREM DeviceKeySavedAlways == Spec => []DeviceKeySaved
<1>1. Init => Known
  BY DEF Init, Known
<1>2. Known => DeviceKeySaved
  BY DEF Known, DeviceKeySaved
<1> QED
  BY <1>1, <1>2, TrustInit, TrustNext, KnownNext, PTL DEF Spec
=============================================================================
