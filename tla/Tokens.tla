-------------------------------- MODULE Tokens --------------------------------
(***************************************************************************)
(* Sets of NFT ids as sorted arrays (class Tokens of tokens.ts): one       *)
(* object and the operations on it, with the loops of add, sub and cmp     *)
(* step by step.  Arrays are sequences, so indices start with 1.           *)
(***************************************************************************)
EXTENDS Integers, Sequences, Functions

CONSTANTS IDs,      \* token ids, all that a bigint may be
          Arrays,   \* arrays that Tokens are constructed from
          Operands  \* values of the other operand, which was constructed too

Increasing(s) == \A i, j \in 1..Len(s) : i < j => s[i] < s[j]

ASSUME IDsAssumption == IDs \subseteq Int
ASSUME ArraysAssumption == Arrays \subseteq Seq(IDs)
ASSUME OperandsAssumption ==
  Operands \subseteq Seq(IDs) /\ \A s \in Operands : Increasing(s)

VARIABLES
  value,      \* this.value
  before,     \* its value when the last operation began
  asset,      \* asset.value
  pc,         \* the loop that runs, or "ready"
  last,       \* the last operation
  outcome,    \* what came of it: "ok" or "throws", or the sign that cmp() returned
  ret,        \* the array under construction
  this_i, asset_i,  \* indices of #add and #sub; min_i and max_i of cmp()
  bigger, smaller   \* flags of cmp()

loop == <<ret, this_i, asset_i, bigger, smaller>>
tokens == <<value, before, asset, pc, last, outcome, loop>>

TokensInit ==
  /\ value = <<>> /\ before = <<>> /\ asset = <<>>
  /\ pc = "ready" /\ last = "new" /\ outcome = "ok"
  /\ ret = <<>> /\ this_i = 1 /\ asset_i = 1
  /\ bigger = FALSE /\ smaller = FALSE
-----------------------------------------------------------------------------
Finish(result) == pc' = "ready" /\ outcome' = result /\ UNCHANGED <<before, asset, last>>
Raise == Finish("throws") /\ UNCHANGED value

(* The constructor sorts the array, then looks for duplicates and negative *)
(* ids, the last id excepted.  A new object takes the place of this one.   *)
New ==
  /\ pc = "ready"
  /\ \E v \in Arrays : \E p \in [DOMAIN v -> DOMAIN v] :
       /\ IsInjective(p)
       /\ LET s == [i \in DOMAIN v |-> v[p[i]]] IN
            /\ \A i, j \in DOMAIN s : i < j => s[i] <= s[j]
            /\ \A k \in 1..(Len(v) - 1) : s[k] >= 0 /\ s[k] # s[k + 1]
            /\ value' = s
  /\ last' = "new" /\ outcome' = "ok"
  /\ UNCHANGED <<before, asset, pc, loop>>

(* Mutant: the id goes before the last smaller one.                        *)
AddIDBefore(id) ==
  /\ pc = "ready" /\ id \notin Range(value)
  /\ \E n \in 0..Len(value) :
       /\ n > 0 => value[n] < id
       /\ \A i \in 1..Len(value) : value[i] < id => i <= n
       /\ LET at == IF n = 0 THEN 0 ELSE n - 1
          IN  value' = SubSeq(value, 1, at) \o <<id>> \o SubSeq(value, at + 1, Len(value))
  /\ last' = "addID" /\ outcome' = "ok"
  /\ UNCHANGED <<before, asset, pc, loop>>

(* addID() splices the id in after the last smaller one; it throws if the  *)
(* id is there already.                                                    *)
AddID(id) ==
  /\ pc = "ready" /\ id \notin Range(value)
  /\ \E n \in 0..Len(value) :
       /\ n > 0 => value[n] < id
       /\ \A i \in 1..Len(value) : value[i] < id => i <= n
       /\ value' = SubSeq(value, 1, n) \o <<id>> \o SubSeq(value, n + 1, Len(value))
  /\ last' = "addID" /\ outcome' = "ok"
  /\ UNCHANGED <<before, asset, pc, loop>>

Begin(op) ==
  /\ pc = "ready" /\ pc' = op /\ last' = op
  /\ before' = value
  /\ asset' \in Operands
  /\ ret' = <<>> /\ this_i' = 1 /\ asset_i' = 1
  /\ bigger' = FALSE /\ smaller' = FALSE
  /\ UNCHANGED <<value, outcome>>
-----------------------------------------------------------------------------
InThis == this_i <= Len(value)
InAsset == asset_i <= Len(asset)

PushThis == ret' = Append(ret, value[this_i]) /\ this_i' = this_i + 1
PushAsset == ret' = Append(ret, asset[asset_i]) /\ asset_i' = asset_i + 1

(* #add: the smaller id of the two goes first; the rest of the longer      *)
(* array follows when the other one is exhausted.                          *)
AddThis ==
  /\ pc = "add" /\ InThis
  /\ InAsset => value[this_i] < asset[asset_i]
  /\ PushThis
  /\ UNCHANGED <<value, before, asset, pc, last, outcome, asset_i, bigger, smaller>>

AddAsset ==
  /\ pc = "add" /\ InAsset
  /\ InThis => asset[asset_i] < value[this_i]
  /\ PushAsset
  /\ UNCHANGED <<value, before, asset, pc, last, outcome, this_i, bigger, smaller>>

AddDuplicate ==
  /\ pc = "add" /\ InThis /\ InAsset
  /\ value[this_i] = asset[asset_i]
  /\ Raise
  /\ UNCHANGED loop

AddReturns ==
  /\ pc = "add" /\ ~InThis /\ ~InAsset
  /\ value' = ret /\ Finish("ok")
  /\ UNCHANGED loop

(* #sub gives up at once if there is more to subtract than there is.       *)
SubTooMany ==
  /\ pc = "sub" /\ Len(asset) > Len(value)
  /\ Raise
  /\ UNCHANGED loop

SubKeep ==
  /\ pc = "sub" /\ Len(asset) <= Len(value)
  /\ InThis
  /\ InAsset => value[this_i] < asset[asset_i]
  /\ PushThis
  /\ UNCHANGED <<value, before, asset, pc, last, outcome, asset_i, bigger, smaller>>

SubRemove ==
  /\ pc = "sub" /\ Len(asset) <= Len(value)
  /\ InThis /\ InAsset /\ value[this_i] = asset[asset_i]
  /\ this_i' = this_i + 1 /\ asset_i' = asset_i + 1
  /\ UNCHANGED <<value, before, asset, pc, last, outcome, ret, bigger, smaller>>

(* The id to subtract is not there, or not all were found.                 *)
SubAbsent ==
  /\ pc = "sub" /\ Len(asset) <= Len(value)
  /\ InAsset
  /\ InThis => value[this_i] > asset[asset_i]
  /\ Raise
  /\ UNCHANGED loop

(* Mutant: what is left to subtract at the end is forgotten.               *)
SubReturnsEarly ==
  /\ pc = "sub" /\ Len(asset) <= Len(value)
  /\ ~InThis
  /\ value' = ret /\ Finish("ok")
  /\ UNCHANGED loop

SubReturns ==
  /\ pc = "sub" /\ Len(asset) <= Len(value)
  /\ ~InThis /\ ~InAsset
  /\ value' = ret /\ Finish("ok")
  /\ UNCHANGED loop
-----------------------------------------------------------------------------
(* cmp() exchanges the arrays by length, but not their lengths, and runs   *)
(* off the end of the shorter one if that is the operand's.                *)
MinArray == IF Len(value) < Len(asset) THEN value ELSE asset
MaxArray == IF Len(value) < Len(asset) THEN asset ELSE value
Flips == Len(value) >= Len(asset)
CmpLoops == this_i # Len(value) + 1 /\ asset_i # Len(asset) + 1 /\ ~(bigger /\ smaller)
CmpInside == this_i <= Len(MinArray) /\ asset_i <= Len(MaxArray)

CmpStep ==
  /\ pc = "cmp" /\ CmpLoops /\ CmpInside
  /\ LET less == MinArray[this_i] < MaxArray[asset_i]
         more == MinArray[this_i] > MaxArray[asset_i]
     IN  /\ bigger' = (bigger \/ less) /\ smaller' = (smaller \/ more)
         /\ this_i' = (IF more THEN this_i ELSE this_i + 1)
         /\ asset_i' = (IF less THEN asset_i ELSE asset_i + 1)
  /\ UNCHANGED <<value, before, asset, pc, last, outcome, ret>>

CmpTypeError ==
  /\ pc = "cmp" /\ CmpLoops /\ ~CmpInside
  /\ Raise
  /\ UNCHANGED loop

CmpReturns ==
  /\ pc = "cmp" /\ ~CmpLoops
  /\ LET isSmaller == smaller \/ Len(value) # Len(asset)
     IN  Finish(IF bigger /\ isSmaller THEN "undefined"
                ELSE IF ~bigger /\ ~isSmaller THEN "equal"
                ELSE IF isSmaller <=> Flips THEN "greater" ELSE "less")
  /\ UNCHANGED <<value, loop>>
-----------------------------------------------------------------------------
Add == AddThis \/ AddAsset \/ AddDuplicate \/ AddReturns
Sub == SubTooMany \/ SubKeep \/ SubRemove \/ SubAbsent \/ SubReturns
Cmp == CmpStep \/ CmpTypeError \/ CmpReturns

TokensNext == \/ New \/ \E id \in IDs : AddID(id)
              \/ \E op \in {"add", "sub", "cmp"} : Begin(op)
              \/ Add \/ Sub \/ Cmp

TokensSpec == TokensInit /\ [][TokensNext]_tokens
-----------------------------------------------------------------------------
(* Whatever is done to it, the array is sorted and has no id twice.        *)
TokensTypeOK ==
  /\ {value, before, asset, ret} \subseteq Seq(IDs)
  /\ Increasing(value) /\ Increasing(asset)
  /\ pc \in {"ready", "add", "sub", "cmp"} /\ last \in {"new", "addID", "add", "sub", "cmp"}
  /\ {this_i, asset_i} \subseteq Nat /\ {bigger, smaller} \subseteq BOOLEAN

(* The loops do what sets do: add() unites disjoint sets and throws on     *)
(* others, sub() takes a subset away and throws on others, and neither     *)
(* changes the object when it throws; cmp() finds equal what is equal.     *)
SetSemantics ==
  LET A == Range(before)
      B == Range(asset)
      Is(set) == outcome = "ok" /\ Range(value) = set
      Throws == outcome = "throws" /\ value = before
  IN  pc = "ready" =>
        /\ last = "add" => IF A \cap B = {} THEN Is(A \union B) ELSE Throws
        /\ last = "sub" => IF B \subseteq A THEN Is(A \ B) ELSE Throws
        /\ last = "cmp" => (outcome = "equal" <=> A = B)

(* What a test says of cmp(): it tells inclusion.                          *)
CmpIsInclusion ==
  LET A == Range(before)
      B == Range(asset)
  IN  pc = "ready" /\ last = "cmp" =>
        outcome = IF A = B THEN "equal" ELSE IF A \subseteq B THEN "less"
                  ELSE IF B \subseteq A THEN "greater" ELSE "undefined"
===============================================================================
