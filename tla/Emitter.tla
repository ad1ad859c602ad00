------------------------------ MODULE Emitter ------------------------------
(***************************************************************************)
(* x64::Emitter: it appends the bytes of one instruction per call, leaves  *)
(* the displacement of jumps open and writes it when it is finalized.  The *)
(* first call that is refused decides the error of the whole emission.     *)
(***************************************************************************)
EXTENDS Encoding

CONSTANTS
  Instructions,   \* the instructions the client asks for
  Conditions,     \* the conditions of its jumps, None for the unconditional one
  MaxCodeSize,    \* maximumCodeSize(), the largest int32 in the code
  MaxLabels       \* the number of identifiers of labels, 2^32 - 1 in the code

ASSUME EmitterAssumption ==
  /\ MaxCodeSize \in Nat /\ MaxLabels \in Nat
  /\ \A i \in Instructions : Encodable(i)
  /\ Conditions \subseteq DOMAIN ConditionCode \cup {None}

Unbound == -1
NoCode == <<>>   \* an optional is a sequence of at most one

EmitErrors == {"none", "finalized", "invalidLabel", "duplicateLabel", "unboundLabel",
               "codeTooLarge", "invalidDivisionOperand"}

VARIABLES
  bytes,       \* bytes_
  labels,      \* labels_: the number of bytes before each label, or Unbound
  fixups,      \* fixups_: label and displacementOffset, the bytes before the field
  error,       \* error_
  finalized,   \* finalized_
  result       \* the code of the last finalize that was not a repetition

vars == <<bytes, labels, fixups, error, finalized, result>>

Init ==
  /\ bytes = <<>> /\ labels = <<>> /\ fixups = <<>>
  /\ error = "none" /\ finalized = FALSE /\ result = NoCode

-----------------------------------------------------------------------------
(* Labels a client can pass: the ones created here, and those of another   *)
(* emitter, whose identity is not this one's whatever their number is.     *)

Own(l) == [owner |-> "this", id |-> l]
Foreign == [owner |-> "other", id |-> 1]
HeldLabels == {Own(l) : l \in DOMAIN labels} \cup {Foreign}

Valid(label) == label.owner = "this" /\ label.id \in DOMAIN labels

-----------------------------------------------------------------------------
(* beginInstruction, and what follows when it or the method refuses.       *)

\* Seeded fault: the size of the code is tested before the instruction, not after it.
CanAppendLoose(size) == size <= MaxCodeSize /\ Len(bytes) <= MaxCodeSize

CanAppend(size) == size <= MaxCodeSize /\ Len(bytes) <= MaxCodeSize - size

Begins(size) == error = "none" /\ ~finalized /\ CanAppend(size)

Fail(e) == IF error = "none" THEN e ELSE error

BeginError(size) ==
  IF error # "none" THEN error ELSE IF finalized THEN Fail("finalized") ELSE Fail("codeTooLarge")

RefuseToBegin(size) ==
  /\ ~Begins(size)
  /\ error' = BeginError(size)
  /\ UNCHANGED <<bytes, labels, fixups, finalized, result>>

RefuseWith(e) ==
  /\ error' = Fail(e)
  /\ UNCHANGED <<bytes, labels, fixups, finalized, result>>

-----------------------------------------------------------------------------
(* The methods.                                                            *)

\* After a failure the label that is returned is never looked at.
CreateLabel ==
  \/ /\ error = "none" /\ ~finalized /\ Len(labels) < MaxLabels
     /\ labels' = Append(labels, Unbound)
     /\ UNCHANGED <<bytes, fixups, error, finalized, result>>
  \/ /\ error # "none" \/ finalized \/ Len(labels) >= MaxLabels
     /\ error' = IF finalized THEN Fail("finalized") ELSE Fail("codeTooLarge")
     /\ UNCHANGED <<bytes, labels, fixups, finalized, result>>

Bind(label) ==
  \/ RefuseToBegin(0)
  \/ Begins(0) /\ ~Valid(label) /\ RefuseWith("invalidLabel")
  \/ Begins(0) /\ Valid(label) /\ labels[label.id] # Unbound /\ RefuseWith("duplicateLabel")
  \/ /\ Begins(0) /\ Valid(label) /\ labels[label.id] = Unbound
     /\ labels' = [labels EXCEPT ![label.id] = Len(bytes)]
     /\ UNCHANGED <<bytes, fixups, error, finalized, result>>

InvalidDivisor(i) == i.op = "signedDivide" /\ i.a \in {rax, rdx}

\* Every method but the two jumps.
Emit(i) ==
  \/ RefuseToBegin(Reserved(i))
  \/ Begins(Reserved(i)) /\ InvalidDivisor(i) /\ RefuseWith("invalidDivisionOperand")
  \/ /\ Begins(Reserved(i)) /\ ~InvalidDivisor(i)
     /\ bytes' = bytes \o Encode(i)
     /\ UNCHANGED <<labels, fixups, error, finalized, result>>

\* Seeded fault: both jumps are taken to have an opcode of two bytes.
DisplacementOffsetLong(condition) == Len(bytes) + 2

DisplacementOffset(condition) == Len(bytes) + Len(JumpOpcode(condition))

Jump(condition, label) ==
  \/ RefuseToBegin(JumpSize(condition))
  \/ Begins(JumpSize(condition)) /\ ~Valid(label) /\ RefuseWith("invalidLabel")
  \/ /\ Begins(JumpSize(condition)) /\ Valid(label)
     /\ bytes' = bytes \o JumpOpcode(condition) \o UInt32(0)
     /\ fixups' = Append(fixups, [label |-> label.id, offset |-> DisplacementOffset(condition)])
     /\ UNCHANGED <<labels, error, finalized, result>>

-----------------------------------------------------------------------------
(* finalize                                                                *)

\* Seeded fault: the displacement counts from its own field.
DisplacementFromField(f) == labels[f.label] - f.offset

\* A displacement counts from the next instruction.
Displacement(f) == labels[f.label] - (f.offset + 4)

Rel32(delta) == delta \in -(MaxCodeSize + 1) .. MaxCodeSize

AllBound == \A l \in DOMAIN labels : labels[l] # Unbound
AllRel32 == \A k \in DOMAIN fixups : Rel32(Displacement(fixups[k]))

FieldOf(k) == {f \in {fixups[n] : n \in DOMAIN fixups} : k \in f.offset + 1 .. f.offset + 4}

\* Every byte of a displacement is written, every other byte kept.
Patched ==
  [k \in DOMAIN bytes |->
     IF FieldOf(k) = {} THEN bytes[k]
     ELSE LET f == CHOOSE f \in FieldOf(k) : TRUE
          IN UInt32(Displacement(f))[k - f.offset]]

FinalError ==
  IF error # "none" THEN error
  ELSE IF ~AllBound THEN "unboundLabel"
  ELSE IF ~AllRel32 THEN "codeTooLarge" ELSE "none"

\* The bytes are moved into the code; a second call gives none.
Finalize ==
  /\ ~finalized
  /\ finalized' = TRUE
  /\ error' = FinalError
  /\ IF FinalError = "none" THEN result' = <<Patched>> /\ bytes' = <<>>
     ELSE result' = NoCode /\ UNCHANGED bytes
  /\ UNCHANGED <<labels, fixups>>

FinalizeAgain == finalized /\ UNCHANGED vars

-----------------------------------------------------------------------------
Next ==
  \/ CreateLabel
  \/ \E label \in HeldLabels : Bind(label)
  \/ \E i \in Instructions : Emit(i)
  \/ \E label \in HeldLabels, condition \in Conditions : Jump(condition, label)
  \/ Finalize
  \/ FinalizeAgain

Spec == Init /\ [][Next]_vars

-----------------------------------------------------------------------------
(* Properties.                                                             *)

TypeOK ==
  /\ bytes \in Seq(0 .. 255)
  /\ labels \in Seq(Int)
  /\ fixups \in Seq([label : Nat, offset : Nat])
  /\ error \in EmitErrors
  /\ finalized \in BOOLEAN
  /\ result \in Seq(Seq(0 .. 255)) /\ Len(result) <= 1

\* The code never exceeds what a rel32 reaches, because every method asks for
\* at least the bytes it appends; labels stand inside it or at its end.
CodeFits ==
  /\ Len(bytes) <= MaxCodeSize
  /\ ~finalized => \A l \in DOMAIN labels : labels[l] \in {Unbound} \cup 0 .. Len(bytes)

\* While calls are accepted, every fixup names a label of this emitter and
\* four bytes of the code that belong to no other fixup: finalize may index
\* labels_ and bytes_ without looking.
FixupsInside ==
  ~finalized =>
    /\ \A k \in DOMAIN fixups :
         /\ fixups[k].label \in DOMAIN labels
         /\ fixups[k].offset + 4 <= Len(bytes)
    /\ \A j, k \in DOMAIN fixups : j < k => fixups[j].offset + 4 <= fixups[k].offset

\* Once every call was accepted and every label is bound, finalize does not
\* fail: the range check of the displacements never refuses.
DisplacementsFit == ~finalized /\ error = "none" /\ AllBound => AllRel32

\* finalize reads and writes its vectors without looking, and neither that nor
\* the range of a displacement can go wrong: the calls before it have seen to it.
FinalizeIsSafe == CodeFits /\ FixupsInside /\ DisplacementsFit
=============================================================================
