----------------------------- MODULE KTDPValues -----------------------------
(***************************************************************************)
(* A value of a KTDP type or attribute in the hands of a program: parsed   *)
(* from a text, made through the C API, through Python or a C++ Builder,   *)
(* printed and parsed again, taken apart and rebuilt, in any order.        *)
(* Two functions make a value.  `getChecked' verifies and refuses; `get'   *)
(* asserts, so in a build without asserts it makes any value.              *)
(***************************************************************************)
EXTENDS KTDPTypes

CONSTANTS Texts,        \* what users write
          Shapes, Numbers, KindNumbers,   \* arguments of the functions
          MaxRank       \* bound: Builders add dimensions up to it

ASSUME ArgumentsAssumption ==
  /\ \A t \in Texts : IsText(t)
  /\ Shapes \subseteq Seq(Int) /\ Numbers \subseteq Int

VARIABLES
  asserts,      \* the program was built with asserts
  stage,        \* "empty"; "text" or "held"; "building", with a Builder; "error", "raised",
                \* "aborted" or "undefined", where nothing follows
  value,        \* <<>>, or the value, or the fields of the Builder
  text,         \* <<>>, or the text read or printed last
  original      \* <<>>, or what the text or value is to be a copy of, [via, value]

valueVars == <<asserts, stage, value, text, original>>

ValuesInit ==
  asserts \in BOOLEAN /\ stage = "empty" /\ value = <<>> /\ text = <<>> /\ original = <<>>

----------------------------------------------------------------------------
\* Mutant: the Builders and C functions forget the assert.
GetUnasserted(v) ==
  stage' = "held" /\ value' = <<v>>

\* T::get(...)
Get(v) ==
  \/ (asserts => Verified(v)) /\ stage' = "held" /\ value' = <<v>>
  \/ asserts /\ ~Verified(v) /\ stage' = "aborted" /\ UNCHANGED value

\* T::getChecked(loc, ...); null becomes an MLIRError in Python.
GetChecked(v) ==
  \/ Verified(v) /\ stage' = "held" /\ value' = <<v>>
  \/ ~Verified(v) /\ stage' = "raised" /\ UNCHANGED value

Unreachable == stage' = (IF asserts THEN "aborted" ELSE "undefined") /\ UNCHANGED value

----------------------------------------------------------------------------
(* Text *)

Write ==
  /\ stage = "empty"
  /\ \E t \in Texts : stage' = "text" /\ text' = <<t>>
  /\ UNCHANGED <<asserts, value, original>>

Parse ==
  /\ stage = "text"
  /\ IF Parses(text[1]) THEN stage' = "held" /\ value' = <<Parsed(text[1])>>
                        ELSE stage' = "error" /\ UNCHANGED value
  /\ UNCHANGED <<asserts, text, original>>

PrintOut ==
  /\ stage = "held"
  /\ stage' = "text" /\ text' = <<Printed(value[1])>>
  /\ original' = <<[via |-> "text", value |-> value[1]]>>
  /\ UNCHANGED <<asserts, value>>

----------------------------------------------------------------------------
(* Python *)

PyGetTile ==
  /\ stage = "empty"
  /\ \E shape \in Shapes, elem \in Types : Get(AccessTileType(shape, elem))
  /\ UNCHANGED <<asserts, text, original>>

PyGetArg ==
  /\ stage = "empty"
  /\ \E under \in Types, gran, ub \in Optional(Numbers) : Get(PyRuntimeArgType(under, gran, ub))
  /\ UNCHANGED <<asserts, text, original>>

\* The caster of the enum takes any integer (Utils.h).
PyGetSpace ==
  /\ stage = "empty"
  /\ \E k \in KindNumbers, ct \in Optional(Numbers) :
       \/ IsMemorySpaceKind(k) /\ GetChecked(PyMemorySpaceAttr(k, ct))
       \/ ~IsMemorySpaceKind(k) /\ Unreachable
  /\ UNCHANGED <<asserts, text, original>>

PyGetSpaceUnchecked ==
  /\ stage = "empty"
  /\ \E k \in KindNumbers, ct \in Optional(Numbers) :
       \/ IsMemorySpaceKind(k) /\ Get(PyMemorySpaceAttr(k, ct))
       \/ ~IsMemorySpaceKind(k) /\ Unreachable
  /\ UNCHANGED <<asserts, text, original>>

\* A program reads the properties of a value and makes the value again from them.
PyCopy ==
  /\ stage = "held"
  /\ LET v == value[1]
     IN  \/ v.mnemonic = "access_tile" /\ Get(AccessTileType(v.shape, v.elem))
         \/ /\ v.mnemonic = "runtime_arg"
            /\ Get(PyRuntimeArgType(v.under, PyGranularity(v), PyUpperbound(v)))
         \/ v.mnemonic = "memory_space" /\ GetChecked(PyMemorySpaceAttr(PyKind(v), PyCtId(v)))
  /\ original' = <<[via |-> "python", value |-> value[1]]>>
  /\ UNCHANGED <<asserts, text>>

----------------------------------------------------------------------------
(* C++ Builders of the two types *)

StartBuilder ==
  /\ stage = "held" /\ value[1].mnemonic # "memory_space"
  /\ stage' = "building" /\ original' = <<>> /\ text' = <<>>
  /\ UNCHANGED <<asserts, value>>

Building(mnemonic) == stage = "building" /\ value[1].mnemonic = mnemonic

SetTile ==
  /\ Building("access_tile")
  /\ \/ \E shape \in Shapes : value' = <<[value[1] EXCEPT !.shape = shape]>>
     \/ \E elem \in Types : value' = <<[value[1] EXCEPT !.elem = elem]>>
  /\ UNCHANGED <<asserts, stage, text, original>>

WithoutDim(shape, pos) ==
  [i \in 1 .. Len(shape) - 1 |-> IF i <= pos THEN shape[i] ELSE shape[i + 1]]
WithDim(shape, n, pos) ==
  [i \in 1 .. Len(shape) + 1 |->
    IF i <= pos THEN shape[i] ELSE IF i = pos + 1 THEN n ELSE shape[i - 1]]

\* Positions count from 0; without the assert a position past the end is undefined.
DropDim ==
  /\ Building("access_tile")
  /\ \E pos \in 0 .. Len(value[1].shape) :
       \/ /\ pos < Len(value[1].shape)
          /\ value' = <<[value[1] EXCEPT !.shape = WithoutDim(@, pos)]>> /\ UNCHANGED stage
       \/ pos >= Len(value[1].shape) /\ Unreachable
  /\ UNCHANGED <<asserts, text, original>>

InsertDim ==
  /\ Building("access_tile") /\ Len(value[1].shape) < MaxRank
  /\ \E pos \in 0 .. Len(value[1].shape) + 1, n \in Numbers \cup {kDynamic} :
       \/ /\ pos <= Len(value[1].shape)
          /\ value' = <<[value[1] EXCEPT !.shape = WithDim(@, n, pos)]>> /\ UNCHANGED stage
       \/ pos > Len(value[1].shape) /\ Unreachable
  /\ UNCHANGED <<asserts, text, original>>

\* set... and clear...
SetArg ==
  /\ Building("runtime_arg")
  /\ \/ \E under \in Types : value' = <<[value[1] EXCEPT !.under = under]>>
     \/ \E gran \in Optional(Numbers) : value' = <<[value[1] EXCEPT !.gran = gran]>>
     \/ \E ub \in Optional(Numbers) : value' = <<[value[1] EXCEPT !.ub = ub]>>
  /\ UNCHANGED <<asserts, stage, text, original>>

\* operator AccessTileType(), operator RuntimeArgType()
Convert ==
  /\ stage = "building"
  /\ Get(value[1])
  /\ UNCHANGED <<asserts, text, original>>

\* cloneWith and clone: another value of the same type, from get.
Clone ==
  /\ stage = "held"
  /\ LET v == value[1]
     IN  \/ /\ v.mnemonic = "access_tile"
            /\ \E shape \in Shapes \cup {v.shape}, elem \in Types : Get(AccessTileType(shape, elem))
         \/ /\ v.mnemonic = "runtime_arg"
            /\ \E under \in Types, gran, ub \in Optional(Numbers) :
                 Get(RuntimeArgType(under, gran, ub))
  /\ text' = <<>> /\ original' = <<>>
  /\ UNCHANGED asserts

BuilderNext == SetTile \/ DropDim \/ InsertDim \/ SetArg \/ Convert

ValuesNext ==
  \/ Write \/ Parse \/ PrintOut \/ StartBuilder \/ BuilderNext \/ Clone
  \/ PyGetTile \/ PyGetArg \/ PyGetSpace \/ PyGetSpaceUnchecked \/ PyCopy

----------------------------------------------------------------------------
(* Properties *)

Stages ==
  {"empty", "text", "held", "building", "error", "raised", "aborted", "undefined"}

\* What is held, read and copied is well-formed whatever the verifiers say of it.
ValuesTypeOK ==
  /\ asserts \in BOOLEAN /\ stage \in Stages
  /\ value = <<>> \/ (value = <<value[1]>> /\ IsValue(value[1]))
  /\ text = <<>> \/ (text = <<text[1]>> /\ IsText(text[1]))
  /\ stage \in {"held", "building"} => value # <<>>
  /\ stage \in {"text", "error"} => text # <<>>

\* However a value was made and edited, in a build with asserts it is one its verifier
\* accepts: no path through C, Python or a Builder leads around both get and getChecked.
HeldIsVerified == asserts /\ stage = "held" => Verified(value[1])

\* A printed value reads back as itself; one that never was verified may fail to read
\* but never reads as another (print and parse, KTDPTypes.cpp; "Builder output must match
\* what the parser produces", test_attributes.py).
TextIsFaithful ==
  original # <<>> /\ original[1].via = "text" =>
    /\ stage = "held" => value[1] = original[1].value
    /\ stage = "error" => ~Verified(original[1].value)

\* What Python reads of a verified value makes the same value again: the sentinels of
\* the C API and the None of Python never collide with an integer the value has.
AccessorsMirrorValue ==
  /\ original # <<>> /\ original[1].via = "python" /\ Verified(original[1].value)
  => stage = "held" /\ value[1] = original[1].value
=============================================================================
