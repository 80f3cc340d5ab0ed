------------------------------- MODULE Keysets -------------------------------
(***************************************************************************)
(* Which mint keys a vault trusts, and its own device key (vault.rs, the   *)
(* commands of main.rs).  Keys are pinned on first use and replaced only   *)
(* by `pin --force'; coins, swaps and tokens are checked against them.     *)
(* Every kiosk has the same keyset ids, one per denomination, and its own  *)
(* keys under them.  Any kiosk may answer any request: the address that a  *)
(* command is given (--atm) may be another's, and a kiosk that is set up   *)
(* anew or restored has other keys at the same address.                    *)
(*                                                                         *)
(* Coins and tokens are abstracted to the set of kinds (denomination and   *)
(* key) in them; amounts, sequence numbers and what the network does with  *)
(* a request are in Purse, the kiosk's part in Kiosk.                      *)
(***************************************************************************)
EXTENDS Naturals, FiniteSets

CONSTANTS
  Kiosk,       \* installations of a kiosk, each the name of its own keys
  Denom,
  Legacy,      \* the denomination of LEGACY_KEYSET_ID
  DeviceKey,   \* the device keys this vault may draw
  None         \* no key, no swap

Kind == [denom : Denom, key : Kiosk]
Swap == [ins : SUBSET Kind, outs : SUBSET Denom]

ASSUME KeysetsAssumption ==
  /\ Legacy \in Denom
  /\ None \notin Kiosk /\ None \notin DeviceKey /\ None \notin Swap

VARIABLES
  mem,       \* FlashState in memory: pins, coins, pending swap, device key
  flash,     \* FlashState in the state file
  call,      \* the command that is running
  shown,     \* device keys that the operator or a kiosk has seen
  disowned   \* kinds that were held when `pin --force' replaced their key

vars == <<mem, flash, call, shown, disowned>>

Offers == [Denom -> Kiosk \cup {None}]
FlashState ==
  [keysets : Offers, trusted : Kiosk \cup {None}, coins : SUBSET Kind,
   pending : Swap \cup {None}, device : DeviceKey \cup {None}]
Idle == [op |-> "idle"]

-----------------------------------------------------------------------------
(* fetch_keysets: any failure of /v1/keysets, not just its absence on old  *)
(* kiosks, is taken for an old kiosk with the one legacy keyset.           *)
Offer(k, denoms) == [d \in Denom |-> IF d \in denoms THEN k ELSE None]
Fetched(k) == {Offer(k, Denom), Offer(k, {Legacy})}

(* pinned_keysets: the list, and the field that older versions wrote.      *)
Pinned(state) ==
  [d \in Denom |-> IF d = Legacy /\ state.keysets[d] = None
                   THEN state.trusted ELSE state.keysets[d]]
NothingPinned(state) == \A d \in Denom : Pinned(state)[d] = None

MayUseNewIds(state, offer) ==
  \A d \in Denom : offer[d] # None => Pinned(state)[d] \in {None, offer[d]}

(* check_keyset_set: what is pinned is unchanged, and nothing is new unless*)
(* nothing is pinned.                                                      *)
MayUse(state, offer) ==
  \/ NothingPinned(state)
  \/ \A d \in Denom : offer[d] # None => Pinned(state)[d] = offer[d]

(* cache_keysets *)
WithKeysets(state, offer) ==
  [state EXCEPT
     !.keysets = [d \in Denom |-> IF offer[d] = None THEN @[d] ELSE offer[d]],
     !.trusted = IF offer[Legacy] = None THEN @ ELSE offer[Legacy]]

VerifiedAny(kinds, state) == kinds # {} /\ ~ NothingPinned(state)

(* verify_offline_set: every proof was signed by the key pinned for it.    *)
Verified(kinds, state) ==
  kinds # {} /\ \A c \in kinds : Pinned(state)[c.denom] = c.key

WithCoins(state, kinds) == [state EXCEPT !.coins = @ \cup kinds]

Holds(state) ==
  state.coins \cup (IF state.pending = None THEN {} ELSE state.pending.ins)

Empty ==
  [keysets |-> [d \in Denom |-> None], trusted |-> None, coins |-> {},
   pending |-> None, device |-> None]

(* A vault that is new, or one whose state an older version wrote when it  *)
(* had a kiosk with a single keyset.                                       *)
Init ==
  /\ flash \in {[Empty EXCEPT !.trusted = k] : k \in Kiosk \cup {None}}
  /\ mem = flash /\ call = Idle /\ shown = {} /\ disowned = {}

-----------------------------------------------------------------------------
(* A command of its own process starts from the state file, and what it    *)
(* could not save is gone with it.                                         *)
NewProcess == call = Idle /\ mem = flash
Process(outcomes) == flash' \in outcomes /\ mem' = flash'

PinUnforced(k, force) ==
  /\ NewProcess
  /\ \E offer \in Fetched(k) : Process({WithKeysets(mem, offer)})
  /\ disowned' = IF force
                 THEN {c \in Holds(flash') : Pinned(flash')[c.denom] # c.key}
                 ELSE disowned
  /\ UNCHANGED <<call, shown>>

(* pin: with --force what the check says is ignored. *)
Pin(k, force) ==
  /\ NewProcess
  /\ \E offer \in Fetched(k) :
       /\ force \/ MayUse(mem, offer)
       /\ Process({WithKeysets(mem, offer)})
  /\ disowned' = IF force
                 THEN {c \in Holds(flash') : Pinned(flash')[c.denom] # c.key}
                 ELSE disowned
  /\ UNCHANGED <<call, shown>>

ShowUnsaved(x) ==
  /\ NewProcess
  /\ mem.device \in {x, None}
  /\ shown' = shown \cup {x}
  /\ UNCHANGED <<mem, flash, call, disowned>>

(* device: the key is drawn and saved on first use, and then shown.        *)
ShowDevice(x) ==
  /\ NewProcess
  /\ \/ mem.device = x /\ UNCHANGED <<mem, flash>>
     \/ mem.device = None /\ Process({[mem EXCEPT !.device = x]})
  /\ shown' = shown \cup {x}
  /\ UNCHANGED <<call, disowned>>

ReceiveFirstAlways(k, token) ==
  /\ NewProcess
  /\ \E offer \in Fetched(k) :
       LET pinned == WithKeysets(mem, offer)
       IN  Process({mem, pinned} \cup (IF Verified(token, pinned)
                                       THEN {WithCoins(pinned, token)} ELSE {}))
  /\ UNCHANGED <<call, shown, disowned>>

(* receive and verify: a vault without keys pins those of the kiosk at     *)
(* hand, unchecked and whether that can be saved or not, and then verifies *)
(* the token.                                                              *)
ReceiveFirst(k, token) ==
  /\ NewProcess /\ NothingPinned(mem)
  /\ \E offer \in Fetched(k) :
       LET pinned == WithKeysets(mem, offer)
       IN  Process({mem, pinned} \cup (IF Verified(token, pinned)
                                       THEN {WithCoins(pinned, token)} ELSE {}))
  /\ UNCHANGED <<call, shown, disowned>>

(* receive_token and accept_payment.  The former leaves the coins in memory*)
(* when it cannot save them.                                               *)
Receive(token) ==
  /\ call = Idle /\ Verified(token, mem)
  /\ mem' = WithCoins(mem, token) /\ flash' \in {flash, mem'}
  /\ UNCHANGED <<call, shown, disowned>>

-----------------------------------------------------------------------------
(* topup_locked *)
StartTopup(k) ==
  /\ call = Idle /\ mem.pending = None
  /\ \E offer \in Fetched(k) :
       /\ MayUse(mem, offer)
       /\ mem' = IF NothingPinned(mem) THEN WithKeysets(mem, offer) ELSE mem
       /\ \/ /\ flash' = IF NothingPinned(mem) THEN mem' ELSE flash
             /\ call' = [op |-> "topup", offer |-> offer]
          \/ mem' # mem /\ UNCHANGED <<flash, call>>
  /\ UNCHANGED <<shown, disowned>>

(* A key that cannot be saved stays in memory, where the next command of a *)
(* prompt finds it and takes it; its first sequence number saves it too.   *)
DrawDevice(x) ==
  /\ call.op = "topup" /\ mem.device = None
  /\ mem' = [mem EXCEPT !.device = x]
  /\ \/ flash' = mem' /\ UNCHANGED call
     \/ UNCHANGED flash /\ call' = Idle
  /\ UNCHANGED <<shown, disowned>>

AskUnverified(k, d) ==
  /\ call.op = "topup" /\ mem.device # None /\ call.offer[d] # None
  /\ flash' = mem
  /\ shown' = shown \cup {mem.device}
  /\ mem' = WithCoins(mem, {[denom |-> d, key |-> k]})
  /\ call' = [call EXCEPT !.op = "keep"]
  /\ UNCHANGED disowned

(* One proof: the sequence number is saved, with everything else, before   *)
(* the request leaves; the answer is checked against the key that was      *)
(* offered when the command began, and the proof is kept.                  *)
AskSignature(k, d) ==
  /\ call.op = "topup" /\ mem.device # None /\ call.offer[d] # None
  /\ flash' = mem
  /\ shown' = shown \cup {mem.device}
  /\ \/ /\ call.offer[d] = k
        /\ mem' = WithCoins(mem, {[denom |-> d, key |-> k]})
        /\ call' = [call EXCEPT !.op = "keep"]
     \/ mem' = mem /\ call' = Idle
  /\ UNCHANGED disowned

KeepProof ==
  /\ call.op = "keep"
  /\ \/ flash' = mem /\ call' = [call EXCEPT !.op = "topup"]
     \/ UNCHANGED flash /\ call' = Idle
  /\ UNCHANGED <<mem, shown, disowned>>

EndTopup ==
  /\ call.op = "topup"
  /\ call' = Idle
  /\ UNCHANGED <<mem, flash, shown, disowned>>

-----------------------------------------------------------------------------
(* Operations that change a copy and adopt it once it is saved.            *)
SaveAndAdopt(next) ==
  mem' = next /\ flash' = next /\ disowned' = disowned \cap Holds(next)

(* pay and settle: some coins go, and others of their kind may stay.       *)
Spend(kinds) ==
  /\ call = Idle
  /\ SaveAndAdopt([mem EXCEPT !.coins = @ \ kinds])
  /\ UNCHANGED <<call, shown>>

(* make_change: new coins of denominations that are pinned. *)
MakeChange(ins, outs) ==
  /\ call = Idle /\ mem.pending = None
  /\ \A d \in outs : Pinned(mem)[d] # None
  /\ \E rest \in {mem.coins, mem.coins \ ins} :
       SaveAndAdopt([mem EXCEPT !.coins = rest,
                                !.pending = [ins |-> ins, outs |-> outs]])
  /\ call' = [op |-> "swap", first |-> TRUE]
  /\ UNCHANGED shown

(* recover *)
Recover ==
  /\ call = Idle /\ mem.pending # None
  /\ call' = [op |-> "swap", first |-> FALSE]
  /\ UNCHANGED <<mem, flash, shown, disowned>>

(* The kiosk signs in exchange for its own coins only. *)
Signed(k) == {[denom |-> d, key |-> k] : d \in mem.pending.outs}

TakeUnverified(k) ==
  /\ call.op = "swap" /\ \A c \in mem.pending.ins : c.key = k
  /\ SaveAndAdopt([WithCoins(mem, Signed(k)) EXCEPT !.pending = None])
  /\ call' = Idle
  /\ UNCHANGED shown

(* complete_pending_swap: the new coins are verified with what is pinned   *)
(* now, which need not be what was pinned when they were asked for.        *)
TakeSwap(k) ==
  /\ call.op = "swap" /\ \A c \in mem.pending.ins : c.key = k
  /\ Verified(Signed(k), mem)
  /\ SaveAndAdopt([WithCoins(mem, Signed(k)) EXCEPT !.pending = None])
  /\ call' = Idle
  /\ UNCHANGED shown

(* abandon_pending: the kiosk refuses the first attempt, or the user says  *)
(* `recover --abandon'.                                                    *)
Abandon ==
  /\ \/ call.op = "swap" /\ call.first
     \/ NewProcess /\ mem.pending # None
  /\ SaveAndAdopt([WithCoins(mem, mem.pending.ins) EXCEPT !.pending = None])
  /\ call' = Idle
  /\ UNCHANGED shown

(* No answer, a refusal of a later attempt, signatures that do not verify, *)
(* or a save that fails: the swap stays pending.                           *)
LeavePending ==
  /\ call.op = "swap"
  /\ call' = Idle
  /\ UNCHANGED <<mem, flash, shown, disowned>>

-----------------------------------------------------------------------------
(* wipe: a wipe that fails leaves memory empty over the old file, which    *)
(* the next save of the same prompt then overwrites.                       *)
Wipe ==
  /\ call = Idle
  /\ mem' = Empty /\ flash' \in {flash, Empty}
  /\ disowned' = disowned \cap Holds(flash')
  /\ shown' = {}
  /\ UNCHANGED call

(* The end of a process, or a crash. *)
Restart ==
  /\ mem' = flash /\ call' = Idle
  /\ UNCHANGED <<flash, shown, disowned>>

(* Others may hand over coins that any kiosk has signed. *)
Token == {kinds \in SUBSET Kind : Cardinality(kinds) \in 1 .. 2}

Next ==
  \/ \E k \in Kiosk, force \in BOOLEAN : Pin(k, force)
  \/ \E x \in DeviceKey : ShowDevice(x) \/ DrawDevice(x)
  \/ \E k \in Kiosk, token \in Token : ReceiveFirst(k, token)
  \/ \E token \in Token : Receive(token)
  \/ \E k \in Kiosk : StartTopup(k) \/ TakeSwap(k)
  \/ \E k \in Kiosk, d \in Denom : AskSignature(k, d)
  \/ KeepProof \/ EndTopup
  \/ \E kinds \in SUBSET mem.coins \ {{}} : Spend(kinds)
  \/ \E ins \in SUBSET mem.coins \ {{}}, outs \in SUBSET Denom \ {{}} :
       MakeChange(ins, outs)
  \/ Recover \/ Abandon \/ LeavePending
  \/ Wipe \/ Restart

Spec == Init /\ [][Next]_vars

-----------------------------------------------------------------------------
(* Every coin in the vault, in memory and in the state file, and every     *)
(* input of a pending swap, is of the key that is pinned there for its     *)
(* denomination, unless that key was replaced by `pin --force'.            *)
(* Kiosks with other keys under the same ids, keys that change between two *)
(* requests of a command, pins that could not be saved, tokens and swaps   *)
(* finished elsewhere do not matter (check_keyset_set, verify_offline_set, *)
(* complete_pending_swap).                                                 *)
HeldIsPinned ==
  \A state \in {mem, flash} : \A c \in Holds(state) :
    Pinned(state)[c.denom] = c.key \/ c \in disowned

(* "keyset change refused until pin --force" (CODE_PLAN.md:51): a key that *)
(* the vault has, in memory and in the state file, gives way to another in *)
(* the file only when the user has asked for it, whatever is topped up,    *)
(* received or verified, and where.  (After a wipe that failed memory has  *)
(* no keys; the user has asked for that, too.)                             *)
OnlyForceReplaces ==
  [][ \/ \A d \in Denom :
           Pinned(mem)[d] = Pinned(flash)[d] /\ Pinned(flash)[d] # None
             => Pinned(flash')[d] \in {Pinned(flash)[d], None}
      \/ \E k \in Kiosk : Pin(k, TRUE) ]_vars

(* A device key that the operator was shown, to allocate quota to it, or   *)
(* that a kiosk has seen, is the one in the state file: no crash or failed *)
(* save leaves an allocation to a key that nobody has (device_public_key). *)
DeviceKeySaved == shown \subseteq {flash.device}
=============================================================================
