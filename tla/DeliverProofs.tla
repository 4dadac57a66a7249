---------------------------- MODULE DeliverProofs ----------------------------
(***************************************************************************)
(* What the to-v1 command leaves behind, whatever takes the output's path  *)
(* meanwhile; that it refuses a bundle for a cause and only then; and what *)
(* the archive of one that it converts holds.                              *)
(*                                                                         *)
(* The second part rests on one inductive invariant, Conversion, whose     *)
(* parts say what a run in each of its phases knows so far: of the input   *)
(* it got past, the options it owes, the types it looked up, the losses it *)
(* told, the entries it laid, and, once it has refused, why.               *)
(***************************************************************************)
EXTENDS Deliver, FiniteSetTheorems, TLAPS

(* The output is the command's own exactly while it writes and after it is *)
(* done; every check and every failure leaves it to somebody else.         *)
Ownership ==
  /\ command \in {"writing", "done"} <=> output.owner = "command"
  /\ command = "done" => output.written = Outputs
  /\ command \in {"checking", "converting", "writing", "done", "failed"}

LEMMA OwnershipStarts == Init => Ownership
BY DEF Init, NoOutput, Ownership

(* A step that leaves the conversion alone leaves the number of its files. *)
LEMMA OutputsStay ==
  ASSUME UNCHANGED convertVars
  PROVE  Outputs' = Outputs
BY DEF convertVars, Outputs, request

LEMMA OwnershipKept == Ownership /\ [Next]_vars => Ownership'
<1>. SUFFICES ASSUME Ownership, [Next]_vars PROVE Ownership'
  OBVIOUS
<1>1. CASE CheckOutput
  BY <1>1 DEF CheckOutput, Ownership
<1>2. CASE ConvertBundle
  BY <1>2 DEF ConvertBundle, Ownership
<1>3. CASE ReportRefusal
  BY <1>3 DEF ReportRefusal, Ownership
<1>4. CASE CreateOutput
  BY <1>4 DEF CreateOutput, Ownership
<1>5. CASE FailCreate
  BY <1>5 DEF FailCreate, Ownership
<1>6. CASE WriteFile
  <2>1. command = "writing" /\ command' = "writing" /\ output.owner = "command"
    BY <1>6 DEF WriteFile, Ownership
  <2>2. output'.owner = "command"
    BY <1>6, <2>1 DEF WriteFile
  <2>. QED
    BY <2>1, <2>2 DEF Ownership
<1>7. CASE FailWrite
  BY <1>7 DEF FailWrite, NoOutput, Ownership
<1>8. CASE FinishWriting
  <2>1. UNCHANGED convertVars
    BY <1>8 DEF FinishWriting
  <2>2. Outputs' = Outputs
    BY <2>1, OutputsStay
  <2>. QED
    BY <1>8, <2>2 DEF FinishWriting, Ownership
<1>9. CASE Intrude
  BY <1>9 DEF Intrude, Ended, Ownership
<1>10. CASE Rest \/ UNCHANGED vars
  <2>1. UNCHANGED <<convertVars, command, output>>
    BY <1>10 DEF Rest, vars
  <2>2. Outputs' = Outputs
    BY <2>1, OutputsStay
  <2>. QED
    BY <2>1, <2>2 DEF Ownership
<1>. QED
  BY <1>1, <1>2, <1>3, <1>4, <1>5, <1>6, <1>7, <1>8, <1>9, <1>10 DEF Next

(***************************************************************************)
(* A command ends with its output whole, or with none of its own           *)
(* (bundle.go, the removal that is armed once the output was created).     *)
(***************************************************************************)
THEOREM OutputCorrect == Spec => []OutputIsWhole
<1>1. Ownership => OutputIsWhole
  BY DEF Ownership, OutputIsWhole
<1>. QED
  BY <1>1, OwnershipStarts, OwnershipKept, PTL DEF Spec

(***************************************************************************)
(* What another process put at the output's path is never overwritten and  *)
(* never removed, whether it was there from the start, came between the    *)
(* check and the creation, or is met by a conversion that failed.          *)
(***************************************************************************)
THEOREM OthersAreSpared == Spec => OthersOutputStays
<1>1. Ownership /\ [Next]_vars => [output.owner = "another" => output' = output]_vars
  <2>. SUFFICES ASSUME Ownership, Next, output.owner = "another"
                PROVE  output' = output
    BY DEF vars
  <2>1. command # "writing"
    BY DEF Ownership
  <2>. QED
    BY <2>1 DEF Next, CheckOutput, ConvertBundle, ReportRefusal, CreateOutput, FailCreate,
              WriteFile, FailWrite, FinishWriting, Intrude, Rest, vars
<1>. QED
  BY <1>1, OwnershipStarts, OwnershipKept, PTL DEF Spec, OthersOutputStays

-----------------------------------------------------------------------------
(***************************************************************************)
(* The options.  A resolver is faithful to the options it owes while it is *)
(* not armed: it has one for each, it has no other, and no two disagree.   *)
(***************************************************************************)
Carries(o, a) ==
  /\ o.identity = OptionIdentity(a.key, a.def) /\ o.key = a.key
  /\ o.id = OptionId[OptionKey(a.key, a.def)] /\ o.name = a.def.name
  /\ NamedApart(a.def)

Faithful(options, owed) ==
  /\ \A a \in owed : \E o \in options : Carries(o, a)
  /\ \A o \in options : \E a \in owed : Carries(o, a)
  /\ \A a, b \in owed : ~Disagree(a, b)

(* A resolver has three fields.                                            *)
IsResolver(r) == r = [options |-> r.options, missing |-> r.missing, armed |-> r.armed]

(* What the additions since `before` have made of a resolver.              *)
Grown(before, r, owed) ==
  /\ IsResolver(r) /\ r.missing = before.missing
  /\ r.armed \in BOOLEAN /\ IsFiniteSet(r.options)
  /\ before.armed => r.armed
  /\ r.armed => before.armed \/ \E a, b \in owed : Disagree(a, b)
  /\ ~r.armed => Faithful(r.options, owed)

Owing(key, def) == [key |-> key, def |-> def]

(* Two options of one identity are one entry, unless their names differ.   *)
LEMMA OneIdentity ==
  ASSUME NEW a, NEW b, OptionIdentity(a.key, a.def) = OptionIdentity(b.key, b.def),
         NamedApart(a.def), NamedApart(b.def)
  PROVE  /\ a.key = b.key
         /\ a.def.name = b.def.name =>
              OptionId[OptionKey(a.key, a.def)] = OptionId[OptionKey(b.key, b.def)]
         /\ a.def.name # b.def.name => Disagree(a, b)
<1>. DEFINE Spelled(c) ==
              IF c.def.internalKey = NoOptionKey THEN c.def.name
                                                 ELSE KeyedName[c.def.internalKey]
<1>1. a.key = b.key /\ Spelled(a) = Spelled(b)
  <2>. HIDE DEF Spelled
  <2>1. <<a.key, Spelled(a)>> = <<b.key, Spelled(b)>>
    BY DEF OptionIdentity, Spelled
  <2>. QED
    BY <2>1
<1>2. a.def.name # b.def.name => Disagree(a, b)
  BY DEF Disagree
<1>3. ASSUME a.def.name = b.def.name
      PROVE  OptionKey(a.key, a.def) = OptionKey(b.key, b.def)
  <2>1. CASE a.def.internalKey = NoOptionKey /\ b.def.internalKey = NoOptionKey
    BY <1>1, <1>3, <2>1 DEF OptionKey
  <2>2. CASE a.def.internalKey # NoOptionKey /\ b.def.internalKey # NoOptionKey
    <3>1. a.def.internalKey = b.def.internalKey
      BY <1>1, <2>2, OptionsAssumption DEF NamedApart, IsInjective
    <3>. QED
      BY <2>2, <3>1 DEF OptionKey
  <2>3. CASE a.def.internalKey = NoOptionKey /\ b.def.internalKey # NoOptionKey
    BY <1>1, <1>3, <2>3 DEF NamedApart
  <2>4. CASE a.def.internalKey # NoOptionKey /\ b.def.internalKey = NoOptionKey
    BY <1>1, <1>3, <2>4 DEF NamedApart
  <2>. QED
    BY <2>1, <2>2, <2>3, <2>4
<1>. QED
  BY <1>1, <1>2, <1>3

LEMMA Disagreement ==
  ASSUME NEW a, NEW b, Disagree(a, b)
  PROVE  /\ Disagree(b, a)
         /\ \/ OptionIdentity(a.key, a.def) = OptionIdentity(b.key, b.def) /\ a.def.name # b.def.name
            \/ /\ a.key # b.key
               /\ OptionId[OptionKey(a.key, a.def)] = OptionId[OptionKey(b.key, b.def)]
BY DEF Disagree

(* The options of a resolver that have the identity of another.            *)
Alike(r, key, def) == {o \in r.options : o.identity = OptionIdentity(key, def)}

LEMMA Resolvers ==
  ASSUME NEW r, IsResolver(r), NEW armed, NEW options
  PROVE  /\ [r EXCEPT !.armed = armed]
              = [options |-> r.options, missing |-> r.missing, armed |-> armed]
         /\ [r EXCEPT !.armed = armed, !.options = options]
              = [options |-> options, missing |-> r.missing, armed |-> armed]
<1>. DEFINE u == [r EXCEPT !.armed = armed]
<1>1. u = [options |-> r.options, missing |-> r.missing, armed |-> armed]
  BY DEF IsResolver
<1>. HIDE DEF u
<1>2. [u EXCEPT !.options = options]
        = [options |-> options, missing |-> r.missing, armed |-> armed]
  BY <1>1
<1>. QED
  BY <1>1, <1>2 DEF u

(* addOption, where the identity is there already and where it is not.     *)
LEMMA AddAlike ==
  ASSUME NEW r, IsResolver(r), NEW key, NEW def, Alike(r, key, def) # {}
  PROVE  AddOption(r, key, def) =
           [options |-> r.options, missing |-> r.missing,
            armed |-> (r.armed \/ \E o \in Alike(r, key, def) : o.name # def.name)]
<1>. DEFINE armed == r.armed \/ \E o \in Alike(r, key, def) : o.name # def.name
<1>1. AddOption(r, key, def) = [r EXCEPT !.armed = armed]
  BY Zenon DEF AddOption, Alike
<1>2. \A c : [r EXCEPT !.armed = c]
               = [options |-> r.options, missing |-> r.missing, armed |-> c]
  BY Resolvers
<1>. HIDE DEF armed
<1>3. AddOption(r, key, def) =
        [options |-> r.options, missing |-> r.missing, armed |-> armed]
  BY <1>1, <1>2
<1>. QED
  BY <1>3 DEF armed

OptionMade(key, def, n) ==
  [identity |-> OptionIdentity(key, def), key |-> key,
   id |-> OptionId[OptionKey(key, def)], name |-> def.name, order |-> n]

(* An option of another property has the id the option would have.         *)
Shared(r, key, def) ==
  \E o \in r.options : o.id = OptionId[OptionKey(key, def)] /\ o.key # key

LEMMA AddUnlike ==
  ASSUME NEW r, IsResolver(r), NEW key, NEW def, Alike(r, key, def) = {}
  PROVE  \E n :
           AddOption(r, key, def) =
             [options |-> r.options \cup {OptionMade(key, def, n)},
              missing |-> r.missing, armed |-> (r.armed \/ Shared(r, key, def))]
<1>. DEFINE n == 1 + Cardinality({o \in r.options : o.key = key})
            armed == r.armed \/ Shared(r, key, def)
            options == r.options \cup {OptionMade(key, def, n)}
<1>1. AddOption(r, key, def) = [r EXCEPT !.armed = armed, !.options = options]
  BY Zenon DEF AddOption, Alike, OptionMade, Shared
<1>2. \A c, s : [r EXCEPT !.armed = c, !.options = s]
                  = [options |-> s, missing |-> r.missing, armed |-> c]
  BY Resolvers
<1>. HIDE DEF armed, options
<1>3. AddOption(r, key, def) = [options |-> options, missing |-> r.missing, armed |-> armed]
  BY <1>1, <1>2
<1>. HIDE DEF n
<1>. QED
  BY <1>3, Zenon DEF armed, options

(* One more option owed: it is there, or the resolver is armed for cause.  *)
LEMMA AddOptionGrows ==
  ASSUME NEW before, NEW r, NEW owed, Grown(before, r, owed), NEW key, NEW def,
         NamedApart(def)
  PROVE  Grown(before, AddOption(r, key, def), owed \cup {Owing(key, def)})
<1>. DEFINE a == Owing(key, def)
            all == owed \cup {a}
            id == OptionId[OptionKey(key, def)]
            q == AddOption(r, key, def)
<1>1. /\ IsResolver(r) /\ r.missing = before.missing /\ r.armed \in BOOLEAN
      /\ IsFiniteSet(r.options)
  BY DEF Grown
<1>2. a.key = key /\ a.def = def
  BY DEF Owing
<1>. HIDE DEF a
<1>3. CASE Alike(r, key, def) # {}
  <2>. DEFINE conflict == \E o \in Alike(r, key, def) : o.name # def.name
  <2>1. q = [options |-> r.options, missing |-> r.missing, armed |-> (r.armed \/ conflict)]
    BY <1>1, <1>3, AddAlike
  <2>2. /\ IsResolver(q) /\ q.missing = before.missing /\ q.options = r.options
        /\ q.armed = (r.armed \/ conflict)
    <3>. DEFINE armed == r.armed \/ conflict
    <3>. HIDE DEF armed, q
    <3>. QED
      BY <1>1, <2>1 DEF IsResolver, armed
  <2>3. ASSUME ~r.armed, conflict
        PROVE  \E x, y \in all : Disagree(x, y)
    <3>1. PICK o \in r.options : o.identity = OptionIdentity(key, def) /\ o.name # def.name
      BY <2>3 DEF Alike
    <3>2. PICK b \in owed : Carries(o, b)
      BY <2>3 DEF Grown, Faithful
    <3>3. Disagree(a, b)
      BY <1>2, <3>1, <3>2, OneIdentity DEF Carries
    <3>. QED
      BY <3>3
  <2>4. ASSUME ~r.armed, ~conflict
        PROVE  Faithful(r.options, all)
    <3>1. PICK o \in r.options : o.identity = OptionIdentity(key, def) /\ o.name = def.name
      BY <1>3, <2>4 DEF Alike
    <3>2. PICK b \in owed : Carries(o, b)
      BY <2>4 DEF Grown, Faithful
    <3>3. /\ b.key = key /\ o.name = b.def.name
          /\ OptionId[OptionKey(b.key, b.def)] = id
      BY <1>2, <3>1, <3>2, OneIdentity DEF Carries
    <3>4. Carries(o, a)
      BY <1>2, <3>1, <3>2, <3>3 DEF Carries
    <3>5. ASSUME NEW c \in owed
          PROVE  ~Disagree(a, c) /\ ~Disagree(c, a)
      <4>. SUFFICES ASSUME Disagree(a, c) PROVE FALSE
        BY Disagreement
      <4>1. CASE OptionIdentity(a.key, a.def) = OptionIdentity(c.key, c.def) /\ a.def.name # c.def.name
        <5>1. PICK p \in r.options : Carries(p, c)
          BY <2>4 DEF Grown, Faithful
        <5>2. p \in Alike(r, key, def) /\ p.name # def.name
          BY <1>2, <4>1, <5>1 DEF Alike, Carries
        <5>. QED
          BY <2>4, <5>2
      <4>2. CASE a.key # c.key /\ OptionId[OptionKey(a.key, a.def)] = OptionId[OptionKey(c.key, c.def)]
        <5>1. Disagree(b, c)
          BY <1>2, <3>3, <4>2 DEF Disagree
        <5>. QED
          BY <2>4, <5>1 DEF Grown, Faithful
      <4>. QED
        BY <4>1, <4>2, Disagreement
    <3>6. ~Disagree(a, a)
      BY DEF Disagree
    <3>. QED
      BY <2>4, <3>4, <3>5, <3>6 DEF Grown, Faithful
  <2>. HIDE DEF conflict, q, all
  <2>5. q.armed \in BOOLEAN
    BY <2>2
  <2>6. before.armed => q.armed
    BY <2>2 DEF Grown
  <2>7. q.armed => before.armed \/ \E x, y \in all : Disagree(x, y)
    <3>1. CASE r.armed
      BY <3>1 DEF Grown, all
    <3>. QED
      BY <1>1, <2>2, <2>3, <3>1
  <2>8. ~q.armed => Faithful(q.options, all)
    BY <2>2, <2>4
  <2>9. Grown(before, q, all)
    BY <1>1, <2>2, <2>5, <2>6, <2>7, <2>8 DEF Grown
  <2>. QED
    BY <2>9 DEF q, all, a
<1>4. CASE Alike(r, key, def) = {}
  <2>. DEFINE shared == Shared(r, key, def)
              new(n) == OptionMade(key, def, n)
  <2>1. PICK n : q = [options |-> r.options \cup {new(n)}, missing |-> r.missing,
                      armed |-> (r.armed \/ shared)]
    BY <1>1, <1>4, AddUnlike
  <2>2. /\ IsResolver(q) /\ q.missing = before.missing /\ q.options = r.options \cup {new(n)}
        /\ q.armed = (r.armed \/ shared)
    <3>. DEFINE armed == r.armed \/ shared
                options == r.options \cup {new(n)}
    <3>. HIDE DEF armed, q, options
    <3>1. q = [options |-> options, missing |-> r.missing, armed |-> armed]
      BY <2>1 DEF armed, options
    <3>2. IsResolver(q) /\ q.missing = before.missing /\ q.options = options /\ q.armed = armed
      BY <1>1, <3>1 DEF IsResolver
    <3>. QED
      BY <3>2 DEF armed, options
  <2>3. Carries(new(n), a)
    BY <1>2 DEF Carries, OptionMade
  <2>4. ASSUME ~r.armed, shared
        PROVE  \E x, y \in all : Disagree(x, y)
    <3>1. PICK o \in r.options : o.id = id /\ o.key # key
      BY <2>4 DEF Shared
    <3>2. PICK b \in owed : Carries(o, b)
      BY <2>4 DEF Grown, Faithful
    <3>3. Disagree(a, b)
      BY <1>2, <3>1, <3>2 DEF Carries, Disagree
    <3>. QED
      BY <3>3
  <2>5. ASSUME ~r.armed, ~shared
        PROVE  Faithful(r.options \cup {new(n)}, all)
    <3>1. ASSUME NEW c \in owed
          PROVE  ~Disagree(a, c) /\ ~Disagree(c, a)
      <4>. SUFFICES ASSUME Disagree(a, c) PROVE FALSE
        BY Disagreement
      <4>1. PICK p \in r.options : Carries(p, c)
        BY <2>5 DEF Grown, Faithful
      <4>2. p \notin Alike(r, key, def)
        BY <1>4
      <4>. QED
        BY <1>2, <2>5, <4>1, <4>2, Disagreement DEF Alike, Carries, Shared
    <3>2. ~Disagree(a, a)
      BY DEF Disagree
    <3>. HIDE DEF new
    <3>. QED
      BY <2>3, <2>5, <3>1, <3>2 DEF Grown, Faithful
  <2>. HIDE DEF shared, q, all, new
  <2>6. q.armed \in BOOLEAN
    BY <2>2
  <2>7. before.armed => q.armed
    BY <2>2 DEF Grown
  <2>8. q.armed => before.armed \/ \E x, y \in all : Disagree(x, y)
    <3>1. CASE r.armed
      BY <3>1 DEF Grown, all
    <3>. QED
      BY <1>1, <2>2, <2>4, <3>1
  <2>9. ~q.armed => Faithful(q.options, all)
    BY <2>2, <2>5
  <2>10. IsFiniteSet(q.options)
    BY <1>1, <2>2, FS_AddElement
  <2>11. Grown(before, q, all)
    BY <1>1, <2>2, <2>6, <2>7, <2>8, <2>9, <2>10 DEF Grown
  <2>. QED
    BY <2>11 DEF q, all, a
<1>. QED
  BY <1>3, <1>4

(* The options a definition of the dictionary brings.                      *)
OptionsDefined(def) == {Owing(PropertyKey(def), o) : o \in Range(def.options)}

(* What is owed is the whole dictionary, and options of values.            *)
OwesTheDictionary(owed) ==
  /\ DictionaryOptions \subseteq owed
  /\ \A a \in owed : a \in DictionaryOptions \/ \E value : a = ValueOption(value)

LEMMA UseOptionGrows ==
  ASSUME NEW before, NEW r, NEW owed, Grown(before, r, owed), OwesTheDictionary(owed),
         NEW value
  PROVE  Grown(before, UseOption(r, value), owed \cup OptionsOf({value}))
<1>. DEFINE key == MappedKey(value[1])
            def == [name |-> value[2], internalKey |-> NoOptionKey]
            q == UseOption(r, value)
<1>0. NamedApart(def)
  BY DEF NamedApart
<1>1. ValueOption(value) = Owing(key, def)
  BY DEF ValueOption, Owing
<1>2. OptionsOf({value}) = IF InDictionary(value) THEN {} ELSE {Owing(key, def)}
  BY <1>1 DEF OptionsOf
<1>3. q = r \/ q = AddOption(r, key, def)
  BY DEF UseOption
<1>4. CASE r.armed
  <2>1. Grown(before, r, owed \cup OptionsOf({value}))
    BY <1>4 DEF Grown
  <2>2. Grown(before, AddOption(r, key, def), owed \cup {Owing(key, def)})
    BY <1>0, AddOptionGrows
  <2>3. AddOption(r, key, def).armed
    <3>1. Grown(r, r, owed)
      BY <1>4 DEF Grown
    <3>2. Grown(r, AddOption(r, key, def), owed \cup {Owing(key, def)})
      BY <1>0, <3>1, AddOptionGrows
    <3>. QED
      BY <1>4, <3>2 DEF Grown
  <2>4. Grown(before, AddOption(r, key, def), owed \cup OptionsOf({value}))
    BY <1>4, <2>2, <2>3 DEF Grown
  <2>. QED
    BY <1>3, <2>1, <2>4
<1>5. CASE ~r.armed /\ OptionsNamed(r, key, value[2]) # {}
  <2>1. q = r
    BY <1>5 DEF UseOption
  <2>2. PICK o \in r.options : o.key = key /\ o.name = value[2]
    BY <1>5 DEF OptionsNamed
  <2>3. PICK a \in owed : a.key = key /\ a.def.name = value[2]
    BY <1>5, <2>2 DEF Grown, Faithful, Carries
  <2>4. InDictionary(value) \/ a = ValueOption(value)
    <3>1. CASE a \in DictionaryOptions
      BY <2>3, <3>1 DEF InDictionary
    <3>2. ASSUME NEW other, a = ValueOption(other)
          PROVE  a = ValueOption(value)
      BY <2>3, <3>2 DEF ValueOption
    <3>. QED
      BY <3>1, <3>2 DEF OwesTheDictionary
  <2>5. owed \cup OptionsOf({value}) = owed
    BY <1>1, <1>2, <2>3, <2>4
  <2>. QED
    BY <2>1, <2>5
<1>6. CASE ~r.armed /\ OptionsNamed(r, key, value[2]) = {}
  <2>1. q = AddOption(r, key, def)
    BY <1>6 DEF UseOption
  <2>2. ~InDictionary(value)
    <3>. SUFFICES ASSUME NEW a \in DictionaryOptions, a.key = key, a.def.name = value[2]
                  PROVE  FALSE
      BY DEF InDictionary
    <3>1. PICK o \in r.options : Carries(o, a)
      BY <1>6 DEF OwesTheDictionary, Grown, Faithful
    <3>2. o \in OptionsNamed(r, key, value[2])
      BY <3>1 DEF Carries, OptionsNamed
    <3>. QED
      BY <1>6, <3>2
  <2>. QED
    BY <1>0, <1>2, <2>1, <2>2, AddOptionGrows
<1>. QED
  BY <1>4, <1>5, <1>6

(* The fold of UseOptions, of AddOptions and of NewResolver.               *)
Latest(p, s) == Max(s)

UseNext(p, n, r) == UseOption(r, p.values[n])
UsedSoFar(p, s, r) == Grown(p.before, r, p.owed \cup OptionsOf({p.values[n] : n \in s}))
OfValues == INSTANCE FoldInduction
              WITH Choice <- Latest, Step <- UseNext, Holds <- UsedSoFar

AddNext(p, n, r) == AddOption(r, PropertyKey(p.def), p.def.options[n])
AddedSoFar(p, s, r) ==
  Grown(p.before, r, p.owed \cup {Owing(PropertyKey(p.def), p.def.options[n]) : n \in s})
OfOptions == INSTANCE FoldInduction
               WITH Choice <- Latest, Step <- AddNext, Holds <- AddedSoFar

DefineNext(p, n, r) == AddOptions(r, bundle.definitions[n])
DefinedSoFar(p, s, r) ==
  Grown(p, r, UNION {OptionsDefined(bundle.definitions[n]) : n \in s})
OfDefinitions == INSTANCE FoldInduction
                   WITH Choice <- Latest, Step <- DefineNext, Holds <- DefinedSoFar

LEMMA LatestIsIn ==
  ASSUME NEW n \in Nat, NEW p, NEW s \in SUBSET (1..n), s # {}
  PROVE  Latest(p, s) \in s
  BY OfValues!LargestIsIn DEF Latest, Max

LEMMA UseOptionsGrows ==
  ASSUME NEW before, NEW r, NEW owed, Grown(before, r, owed), OwesTheDictionary(owed),
         NEW values, IsList(values)
  PROVE  Grown(before, UseOptions(r, values), owed \cup OptionsOf(Range(values)))
<1>. DEFINE p == [before |-> before, owed |-> owed, values |-> values]
<1>1. PICK n \in Nat : DOMAIN values = 1..n
  BY DEF IsList
<1>2. IsFiniteSet(DOMAIN values)
  BY <1>1, FS_Interval
<1>3. UsedSoFar(p, {}, r)
  BY DEF UsedSoFar, OptionsOf
<1>4. ASSUME NEW s \in SUBSET DOMAIN values, s # {}, NEW q, UsedSoFar(p, s \ {Latest(p, s)}, q)
      PROVE  UsedSoFar(p, s, UseNext(p, Latest(p, s), q))
  <2>. DEFINE m == Latest(p, s)
              rest == s \ {m}
              value == p.values[m]
              sofar == owed \cup OptionsOf({p.values[k] : k \in rest})
  <2>1. m \in s
    BY <1>1, <1>4, LatestIsIn
  <2>2. Grown(before, q, sofar)
    BY <1>4 DEF UsedSoFar
  <2>3. OwesTheDictionary(sofar)
    BY DEF OwesTheDictionary, OptionsOf
  <2>4. Grown(before, UseOption(q, value), sofar \cup OptionsOf({value}))
    BY <2>2, <2>3, UseOptionGrows
  <2>5. sofar \cup OptionsOf({value}) = owed \cup OptionsOf({p.values[k] : k \in s})
    <3>. HIDE DEF m
    <3>. QED
      BY <2>1 DEF OptionsOf
  <2>. QED
    BY <2>4, <2>5 DEF UsedSoFar, UseNext
<1>5. \A s \in SUBSET DOMAIN values : s # {} => Latest(p, s) \in s
  BY <1>1, LatestIsIn
<1>6. UsedSoFar(p, DOMAIN values, OfValues!FoldOf(p, DOMAIN values, r))
  <2>. HIDE DEF p
  <2>. QED
    BY <1>2, <1>3, <1>4, <1>5, OfValues!FoldKeeps DEF OfValues!IsFiniteSet, IsFiniteSet
<1>7. UseOptions(r, values) = OfValues!FoldOf(p, DOMAIN values, r)
  BY DEF UseOptions, FoldLeft, MapThenFoldSet, Latest, UseNext, OfValues!FoldOf
<1>. QED
  BY <1>6, <1>7 DEF UsedSoFar, Range

(* The options of a definition can be told apart by their keys.            *)
OptionsApart(def) == \A o \in Range(def.options) : NamedApart(o)

LEMMA AddOptionsGrows ==
  ASSUME NEW before, NEW r, NEW owed, Grown(before, r, owed), NEW def, IsList(def.options),
         OptionsApart(def)
  PROVE  Grown(before, AddOptions(r, def), owed \cup OptionsDefined(def))
<1>. DEFINE p == [before |-> before, owed |-> owed, def |-> def]
            options == def.options
<1>1. PICK n \in Nat : DOMAIN options = 1..n
  BY DEF IsList
<1>2. IsFiniteSet(DOMAIN options)
  BY <1>1, FS_Interval
<1>3. AddedSoFar(p, {}, r)
  BY DEF AddedSoFar
<1>4. ASSUME NEW s \in SUBSET DOMAIN options, s # {}, NEW q, AddedSoFar(p, s \ {Latest(p, s)}, q)
      PROVE  AddedSoFar(p, s, AddNext(p, Latest(p, s), q))
  <2>. DEFINE m == Latest(p, s)
              rest == s \ {m}
              Now(k) == Owing(PropertyKey(def), options[k])
              sofar == owed \cup {Now(k) : k \in rest}
  <2>1. m \in s
    BY <1>1, <1>4, LatestIsIn
  <2>2. Grown(before, q, sofar)
    BY <1>4 DEF AddedSoFar
  <2>3. Grown(before, AddOption(q, PropertyKey(def), options[m]), sofar \cup {Now(m)})
    <3>1. NamedApart(options[m])
      BY <1>4, <2>1 DEF OptionsApart, Range
    <3>. QED
      BY <2>2, <3>1, AddOptionGrows
  <2>4. sofar \cup {Now(m)} = owed \cup {Now(k) : k \in s}
    <3>. HIDE DEF m, Now
    <3>. QED
      BY <2>1
  <2>. QED
    BY <2>3, <2>4 DEF AddedSoFar, AddNext
<1>5. \A s \in SUBSET DOMAIN options : s # {} => Latest(p, s) \in s
  BY <1>1, LatestIsIn
<1>6. AddedSoFar(p, DOMAIN options, OfOptions!FoldOf(p, DOMAIN options, r))
  <2>. HIDE DEF p
  <2>. QED
    BY <1>2, <1>3, <1>4, <1>5, OfOptions!FoldKeeps DEF OfOptions!IsFiniteSet, IsFiniteSet
<1>7. AddOptions(r, def) = OfOptions!FoldOf(p, DOMAIN options, r)
  BY DEF AddOptions, FoldLeft, MapThenFoldSet, Latest, AddNext, OfOptions!FoldOf
<1>. QED
  BY <1>6, <1>7 DEF AddedSoFar, Range, OptionsDefined

NoOptions == [options |-> {}, missing |-> {}, armed |-> FALSE]

(* The resolver a run begins with owes the dictionary and nothing else.    *)
LEMMA NewResolverGrows ==
  ASSUME input.bundle \in Bundles
  PROVE  Grown(NoOptions, NewResolver, DictionaryOptions)
<1>. DEFINE definitions == bundle.definitions
            p == NoOptions
<1>0. /\ IsList(definitions)
      /\ \A def \in Range(definitions) : IsList(def.options) /\ OptionsApart(def)
  BY DecodedAssumption, OptionsAssumption DEF bundle, OptionsApart
<1>1. PICK n \in Nat : DOMAIN definitions = 1..n
  BY <1>0 DEF IsList
<1>2. IsFiniteSet(DOMAIN definitions)
  BY <1>1, FS_Interval
<1>3. DefinedSoFar(p, {}, NoOptions)
  BY FS_EmptySet DEF DefinedSoFar, Grown, NoOptions, IsResolver, Faithful
<1>4. ASSUME NEW s \in SUBSET DOMAIN definitions, s # {}, NEW q,
             DefinedSoFar(p, s \ {Latest(p, s)}, q)
      PROVE  DefinedSoFar(p, s, DefineNext(p, Latest(p, s), q))
  <2>. DEFINE m == Latest(p, s)
              rest == s \ {m}
              Now(k) == OptionsDefined(definitions[k])
              sofar == UNION {Now(k) : k \in rest}
  <2>1. m \in s /\ IsList(definitions[m].options) /\ OptionsApart(definitions[m])
    BY <1>0, <1>1, <1>4, LatestIsIn DEF Range
  <2>2. Grown(p, q, sofar)
    BY <1>4 DEF DefinedSoFar
  <2>3. Grown(p, AddOptions(q, definitions[m]), sofar \cup Now(m))
    BY <2>1, <2>2, AddOptionsGrows
  <2>4. sofar \cup Now(m) = UNION {Now(k) : k \in s}
    <3>. HIDE DEF m, Now
    <3>. QED
      BY <2>1
  <2>. QED
    BY <2>3, <2>4 DEF DefinedSoFar, DefineNext
<1>5. \A s \in SUBSET DOMAIN definitions : s # {} => Latest(p, s) \in s
  BY <1>1, LatestIsIn
<1>6. DefinedSoFar(p, DOMAIN definitions, OfDefinitions!FoldOf(p, DOMAIN definitions, p))
  <2>. HIDE DEF p
  <2>. QED
    BY <1>2, <1>3, <1>4, <1>5, OfDefinitions!FoldKeeps
       DEF OfDefinitions!IsFiniteSet, IsFiniteSet, p
<1>7. NewResolver = OfDefinitions!FoldOf(p, DOMAIN definitions, p)
  BY DEF NewResolver, FoldLeft, MapThenFoldSet, Latest, DefineNext, OfDefinitions!FoldOf, NoOptions
<1>8. DictionaryOptions = UNION {OptionsDefined(definitions[n_1]) : n_1 \in DOMAIN definitions}
  BY DEF DictionaryOptions, OptionsDefined, Owing, Range
<1>. QED
  BY <1>6, <1>7, <1>8 DEF DefinedSoFar

-----------------------------------------------------------------------------
(***************************************************************************)
(* The parts of the invariant, each for the phases from which it holds.    *)
(***************************************************************************)
Working == {"index", "documents", "options", "index entries", "converted"}
PastIndex == Working \ {"index"}
PastDocuments == {"options", "index entries", "converted"}
PastOptions == {"index entries", "converted"}

Made == {d \in bundle.documents : d.path \notin todo}
Missing == DeclaredMissing \ TypeKeys

(* What a run that got past the validator and the resolver relies on.      *)
Stages ==
  /\ input.bundle \in Bundles
  /\ phase \in {"called", "refused"} \cup Working
  /\ phase \in {"called", "index"} => Made = {} /\ DOMAIN entries = {} /\ lostMember = FALSE
  /\ phase \in Working =>
       request.valid /\ Inspected /\ ~bundle.odd /\ ~NativeClash /\ ~DuplicateProperty
  /\ phase \in PastIndex => ~DeclarationsMerge /\ index = DecodedIndex
  /\ phase \in PastDocuments => todo = {}

OwedNow == DictionaryOptions \cup UNION {OptionsOf(Range(d.values)) : d \in Made}

OptionsFollow ==
  phase \in Working =>
    /\ IsResolver(resolver) /\ resolver.armed \in BOOLEAN /\ IsFiniteSet(resolver.options)
    /\ resolver.armed => OptionsDisagree \/ UnknownTypes # {}
    /\ ~resolver.armed => Faithful(resolver.options, OwedNow)

TypesFollow ==
  phase \in PastIndex =>
    /\ resolver.missing = Missing
    /\ ~resolver.armed =>
         /\ TypeKeysNamed(IndexSlots(bundle.index)) \subseteq DOMAIN TypeIds
         /\ \A d \in Made :
              TypeKeysNamed(d.refs) \cup d.typeSlots \subseteq DOMAIN TypeIds \cup Missing
    /\ \A d \in Made :
         /\ Range(NormalTypes(d)) \subseteq DOMAIN TypeIds
         /\ ~(d.kind = "template" /\ ~d.targeted /\ Len(d.types) < 2)
    /\ phase \in PastDocuments =>
         \A n \in DefinedProperties : PropertyTargets(n) \subseteq DOMAIN TypeIds

SpacelessMember(d) ==
  /\ request.space = NoSpace
  /\ \E id \in d.refs \cup (IF d.kind = "participant" THEN {d.id} ELSE {}) : NamesMember(id)

LossesFollow ==
  phase \in PastIndex =>
    /\ lostMember \in BOOLEAN
    /\ lostMember <=> \E d \in Made : SpacelessMember(d)
    /\ \A d \in Made :
         /\ \A key \in Range(d.types) \cap Missing :
              d.kind # "type" => <<"retyped", d.id, key>> \in told
         /\ d.kind = "file" =>
              OutputId(d) \in files \/ <<"no bytes", d.id, d.remote>> \in told

(* The places owed so far, a document's by the document.                   *)
PlacesNow ==
  (IF phase \in PastDocuments THEN {RelationPlace(n) : n \in DefinedProperties} ELSE {})
    \cup (IF phase \in PastOptions THEN OptionPlaces ELSE {})
    \cup (IF phase = "converted" THEN IndexEntries ELSE {})

OwedEntry(from, place) == [from |-> from, place |-> place]

EntriesOwedNow ==
  {OwedEntry({d}, Place(d)) : d \in Made} \cup {OwedEntry({}, place) : place \in PlacesNow}

EntriesApart(owed) ==
  /\ \A o \in owed : o.place[2] \notin UnsafeOutputs
  /\ \A o1, o2 \in owed : o1 # o2 => ~Clash(o1.place, o2.place)

Apart ==
  phase \in Working =>
    DOMAIN entries = {o.place : o \in EntriesOwedNow} /\ EntriesApart(EntriesOwedNow)

KnownKeys == {Native(key) : key \in DOMAIN TypeIds}

(* The homepage, or the entry point, the index states.                     *)
StatedHome == IF index.homepage # {} THEN index.homepage ELSE index.entrypoint

(* The sidebar's entry, and the space's where the index states a homepage. *)
IndexRefs ==
  [place \in (IF HasSidebar THEN {<<"objects", WidgetsId>>} ELSE {})
     \cup (IF request.authoring \/ StatedHome = {} THEN {}
                                                   ELSE {<<"objects", WorkspaceId>>}) |->
     IF place[2] = WidgetsId THEN WidgetIds ELSE StatedHome]

EntriesFollow ==
  phase \in Working =>
    /\ \A d \in Made :
         /\ Place(d) \in DOMAIN entries
         /\ entries[Place(d)].refs = [ref \in d.refs |-> UnfoldRef(ReaderOptions, ref)]
         /\ d.kind = "type" => entries[Place(d)].key = Native(d.key)
    /\ phase \in PastDocuments =>
         \A n \in DefinedProperties :
           /\ RelationPlace(n) \in DOMAIN entries
           /\ entries[RelationPlace(n)].refs = [key \in PropertyTargets(n) |-> TypeIds[key]]
    /\ phase = "converted" =>
         \A place \in DOMAIN IndexRefs :
           place \in DOMAIN entries /\ DOMAIN entries[place].refs = IndexRefs[place]
    /\ \A place \in DOMAIN entries : Range(entries[place].types) \subseteq KnownKeys

Blamed == Refused => CauseForRefusal

-----------------------------------------------------------------------------
(***************************************************************************)
(* What a step leaves alone.                                               *)
(***************************************************************************)
LEMMA StepKinds == [Next]_vars => ConvertStep \/ UNCHANGED convertVars
BY DEF Next, CheckOutput, ConvertBundle, ReportRefusal, CreateOutput, FailCreate, WriteFile,
       FailWrite, FinishWriting, Intrude, Rest, vars

LEMMA InputStays == [Next]_vars => input' = input
BY StepKinds
   DEF convertVars, ConvertStep, RefuseRequest, RefuseInspected, RefuseTree, RefuseResolver,
       BuildResolver, RefuseIndex, ReadIndex, RefuseDocument, ConvertDocument,
       RefuseProperties, AddProperties, RefuseOptions, AddOptionEntries, RefuseAtTheEnd,
       Return, Refuse

(* What follows from the input alone is the same in every state.           *)
LEMMA WhatTheInputSays ==
  ASSUME input' = input
  PROVE  /\ bundle' = bundle /\ request' = request
         /\ TypeKeys' = TypeKeys /\ TypeIds' = TypeIds /\ ReaderOptions' = ReaderOptions
         /\ \A d : OutputId(d)' = OutputId(d) /\ Place(d)' = Place(d)
         /\ \A key : Native(key)' = Native(key)
         /\ KeptContentIds' = KeptContentIds
<1>1. bundle' = bundle /\ request' = request
  BY DEF bundle, request
<1>2. TypeKeys' = TypeKeys /\ TypeIds' = TypeIds /\ KeptContentIds' = KeptContentIds
  BY <1>1 DEF TypeIds, CarriedTypeIds, ShippedTypeIds, KeptContentIds, TypeKeys, TypeDocuments
<1>3. ReaderOptions' = ReaderOptions
  BY <1>1, <1>2 DEF ReaderOptions
<1>4. \A d : OutputId(d)' = OutputId(d) /\ Place(d)' = Place(d)
  BY <1>3 DEF Place, OutputId
<1>5. \A key : Native(key)' = Native(key)
  BY <1>1, <1>2 DEF Native, PlannedTypeKeys
<1>. QED
  BY <1>1, <1>2, <1>3, <1>4, <1>5

(* The ids of the index, as its reader and as a cause for refusal has them.*)
LEMMA SlotsNamed == NamedByTheIndex = IndexSlots(bundle.index)
BY DEF NamedByTheIndex, IndexSlots, WidgetTargets

(* So are the bundle's own causes for refusal ...                          *)
LEMMA WhatTheInputAdmits ==
  ASSUME input' = input
  PROVE  /\ Inspected' = Inspected /\ DecodedIndex' = DecodedIndex
         /\ DeclarationsMerge' = DeclarationsMerge
         /\ NativeClash' = NativeClash /\ DuplicateProperty' = DuplicateProperty
         /\ Missing' = Missing /\ UnknownTypes' = UnknownTypes
         /\ MembersWithoutASpace' = MembersWithoutASpace
         /\ IconLosesAMember' = IconLosesAMember
         /\ \A d : SpacelessMember(d)' = SpacelessMember(d)
<1>1. bundle' = bundle /\ request' = request /\ TypeKeys' = TypeKeys /\ TypeIds' = TypeIds
  BY WhatTheInputSays
<1>2. ReaderOptions' = ReaderOptions
  BY WhatTheInputSays
<1>3. Inspected' = Inspected
  BY <1>1 DEF Inspected, Report, InspectedBundle, OutsideTheSubset, DefinedKeys
<1>4. DecodedIndex' = DecodedIndex /\ DeclarationsMerge' = DeclarationsMerge
  BY <1>1, <1>2 DEF DecodedIndex, DeclarationsMerge, Unfold
<1>5. NativeClash' = NativeClash /\ DuplicateProperty' = DuplicateProperty
  BY <1>1 DEF NativeClash, DuplicateProperty, PlannedTypeKeys
<1>6. Missing' = Missing /\ UnknownTypes' = UnknownTypes
  BY <1>1 DEF Missing, DeclaredMissing, UnknownTypes, TypesNamed, TypesNamedForGood,
              NamedByTheIndex, TypeDocuments, DefinedProperties
<1>7. IconLosesAMember' = IconLosesAMember
  BY <1>1 DEF IconLosesAMember
<1>8. /\ MembersWithoutASpace' = MembersWithoutASpace
      /\ \A d : SpacelessMember(d)' = SpacelessMember(d)
  BY <1>1, <1>7 DEF MembersWithoutASpace, SpacelessMember
<1>. QED
  BY <1>1, <1>3, <1>4, <1>5, <1>6, <1>7, <1>8

(* ... and the options and properties it owes.                             *)
LEMMA WhatTheInputOwes ==
  ASSUME input' = input
  PROVE  /\ DictionaryOptions' = DictionaryOptions
         /\ \A values : OptionsOf(values)' = OptionsOf(values)
         /\ OptionsOwed' = OptionsOwed /\ OptionsDisagree' = OptionsDisagree
         /\ DefinedProperties' = DefinedProperties
         /\ \A n : RelationPlace(n)' = RelationPlace(n)
<1>1. bundle' = bundle /\ request' = request /\ TypeIds' = TypeIds
  BY WhatTheInputSays
<1>2. DictionaryOptions' = DictionaryOptions
  BY <1>1 DEF DictionaryOptions
<1>3. \A key : MappedKey(key)' = MappedKey(key)
  BY <1>1 DEF MappedKey
<1>4. \A values : OptionsOf(values)' = OptionsOf(values)
  BY <1>2, <1>3 DEF OptionsOf, InDictionary, ValueOption
<1>5. OptionsOwed' = OptionsOwed
  BY <1>1, <1>2, <1>4 DEF OptionsOwed
<1>6. OptionsDisagree' = OptionsDisagree
  BY <1>5 DEF OptionsDisagree
<1>7. DefinedProperties' = DefinedProperties /\ \A n : RelationPlace(n)' = RelationPlace(n)
  BY <1>1 DEF DefinedProperties, RelationPlace
<1>. QED
  BY <1>2, <1>4, <1>5, <1>6, <1>7

Refusal == \E at : Refuse(at)

(* A conversion's step refuses, or is one of the steps that do something.  *)
LEMMA ConvertSteps ==
  ConvertStep => \/ Refusal \/ BuildResolver \/ ReadIndex \/ ConvertDocument
                 \/ AddProperties \/ AddOptionEntries \/ Return
BY DEF ConvertStep, Refusal, RefuseRequest, RefuseInspected, RefuseTree, RefuseResolver,
       RefuseIndex, RefuseDocument, RefuseProperties, RefuseOptions, RefuseAtTheEnd

LEMMA RefusalDoes ==
  Refusal => /\ phase' = "refused"
             /\ UNCHANGED <<input, todo, index, resolver, lostMember, entries, files, told>>
BY DEF Refusal, Refuse

LEMMA StagesAtFirst == Init => Stages
<1>. SUFFICES ASSUME Init PROVE Stages
  OBVIOUS
<1>1. /\ input.bundle \in Bundles /\ phase = "called" /\ entries = <<>>
      /\ lostMember = FALSE /\ todo = {d.path : d \in input.bundle.documents}
  BY DEF Init, StartConvert
<1>2. Made = {} /\ DOMAIN entries = {}
  BY <1>1 DEF Made, bundle
<1>. QED
  BY <1>1, <1>2 DEF Stages, Working, PastIndex, PastDocuments

LEMMA StagesKept == Stages /\ [Next]_vars => Stages'
<1>. SUFFICES ASSUME Stages, [Next]_vars PROVE Stages'
  OBVIOUS
<1>0. input' = input
  BY InputStays
<1>. USE DEF Working, PastIndex, PastDocuments
<1>1. /\ bundle' = bundle /\ request' = request /\ Inspected' = Inspected
      /\ NativeClash' = NativeClash /\ DuplicateProperty' = DuplicateProperty
      /\ DeclarationsMerge' = DeclarationsMerge /\ DecodedIndex' = DecodedIndex
  BY <1>0, WhatTheInputSays, WhatTheInputAdmits
<1>2. todo' = todo => Made' = Made
  BY <1>1 DEF Made
<1>3. CASE UNCHANGED convertVars
  BY <1>1, <1>2, <1>3 DEF Stages, convertVars
<1>4. CASE Refusal
  BY <1>0, <1>4, RefusalDoes DEF Stages
<1>5. CASE BuildResolver
  BY <1>1, <1>2, <1>5 DEF Stages, BuildResolver
<1>6. CASE ReadIndex
  BY <1>1, <1>2, <1>6 DEF Stages, ReadIndex
<1>7. CASE ConvertDocument
  BY <1>1, <1>7 DEF Stages, ConvertDocument
<1>8. CASE AddProperties
  BY <1>1, <1>8 DEF Stages, AddProperties
<1>9. CASE AddOptionEntries
  BY <1>1, <1>9 DEF Stages, AddOptionEntries
<1>10. CASE Return
  BY <1>1, <1>10 DEF Stages, Return
<1>. QED
  BY <1>3, <1>4, <1>5, <1>6, <1>7, <1>8, <1>9, <1>10, StepKinds, ConvertSteps

-----------------------------------------------------------------------------
(***************************************************************************)
(* The options and the types of the documents converted so far.            *)
(***************************************************************************)
LEMMA TypeIdsAnswer ==
  /\ DOMAIN TypeIds = TypeKeys \cup ShippedTypes \cup DOMAIN KeptContentIds
  /\ \A key \in TypeKeys : TypeIds[key] = CarriedTypeIds[key]
BY DEF TypeIds, Over, CarriedTypeIds, ShippedTypeIds

(* One document is converted at a time, and never again.                   *)
LEMMA DocumentStep ==
  ASSUME Stages, ConvertDocument
  PROVE  \E d \in bundle.documents :
           /\ ~Unconvertible(d) /\ Made' = Made \cup {d} /\ d \notin Made
           /\ resolver' = DocumentResolver(d)
           /\ lostMember' = (lostMember \/
                /\ request.space = NoSpace
                /\ \E id \in d.refs \cup (IF d.kind = "participant" THEN {d.id} ELSE {}) :
                     NamesMember(id))
           /\ files' = (IF HasBytes(d) THEN files \cup {OutputId(d)} ELSE files)
           /\ told' = told \cup {<<"retyped", d.id, key>> : key \in Retyped(d)}
                \cup (IF d.kind = "file" /\ ~HasBytes(d)
                      THEN {<<"no bytes", d.id, d.remote>>} ELSE {})
           /\ entries' = Over([place \in {Place(d)} |-> ConvertedDocument(d)], entries)
<1>1. PICK d \in bundle.documents :
        /\ Current(d) /\ ~Unconvertible(d) /\ todo' = todo \ {d.path}
        /\ resolver' = DocumentResolver(d)
        /\ lostMember' = (lostMember \/
             /\ request.space = NoSpace
             /\ \E id \in d.refs \cup (IF d.kind = "participant" THEN {d.id} ELSE {}) :
                  NamesMember(id))
        /\ files' = (IF HasBytes(d) THEN files \cup {OutputId(d)} ELSE files)
        /\ told' = told \cup {<<"retyped", d.id, key>> : key \in Retyped(d)}
             \cup (IF d.kind = "file" /\ ~HasBytes(d)
                   THEN {<<"no bytes", d.id, d.remote>>} ELSE {})
        /\ entries' = Over([place \in {Place(d)} |-> ConvertedDocument(d)], entries)
  BY Zenon DEF ConvertDocument
<1>2. d.path \in todo
  BY <1>1 DEF Current
<1>3. \A e \in bundle.documents : e.path = d.path => e = d
  BY PathsAssumption DEF Stages, bundle
<1>4. bundle' = bundle
  BY WhatTheInputSays DEF ConvertDocument
<1>5. Made' = Made \cup {d} /\ d \notin Made
  BY <1>1, <1>2, <1>3, <1>4 DEF Made
<1>. QED
  BY <1>1, <1>5, Zenon

LEMMA OwedNowIsOwed == OwedNow \subseteq OptionsOwed /\ OwesTheDictionary(OwedNow)
<1>1. \A d \in Made : d \in bundle.documents
  BY DEF Made
<1>2. OwedNow \subseteq OptionsOwed
  BY <1>1 DEF OwedNow, OptionsOwed
<1>3. \A values : \A a \in OptionsOf(values) : \E value : a = ValueOption(value)
  BY DEF OptionsOf
<1>. QED
  BY <1>2, <1>3 DEF OwedNow, OwesTheDictionary

(* The types a document names where a miss only arms the error.            *)
TypesLookedUp(d) ==
  TypeKeysNamed(d.refs \cup (IF d.kind = "type" THEN {d.id} ELSE {})) \cup d.typeSlots

(* A lookup that arms the error has met a type nobody knows.               *)
LEMMA ArmedByTypes ==
  ASSUME Stages, NEW d \in bundle.documents,
         Arms(Missing, TypesLookedUp(d))
  PROVE  UnknownTypes # {}
<1>1. PICK key \in TypesLookedUp(d) : key \notin DOMAIN TypeIds \cup Missing
  BY DEF Arms
<1>2. key \in TypeKeysNamed(d.refs) \cup d.typeSlots
  <2>1. ASSUME d.kind = "type", NamesType(d.id), key = d.id.name
        PROVE  FALSE
    <3>1. EntitledId(d.kind, d.id, d.key)
      BY DecodedAssumption DEF Stages, bundle
    <3>2. key = d.key
      BY <2>1, <3>1 DEF EntitledId, NamesType
    <3>3. key \in TypeKeys
      BY <2>1, <3>2 DEF TypeKeys, TypeDocuments
    <3>. QED
      BY <1>1, <3>3, TypeIdsAnswer
  <2>. QED
    BY <1>1, <2>1 DEF TypesLookedUp, TypeKeysNamed
<1>3. key \in TypesNamed
  BY <1>2 DEF TypesNamed
<1>4. key \notin DeclaredMissing
  BY <1>1, TypeIdsAnswer DEF Missing
<1>. QED
  BY <1>1, <1>3, <1>4 DEF UnknownTypes

(* What reading the index makes of the resolver.                           *)
LEMMA IndexResolver ==
  ASSUME IsResolver(resolver), ReadIndex
  PROVE  /\ IsResolver(resolver') /\ resolver'.options = resolver.options
         /\ resolver'.missing = Missing
         /\ resolver'.armed = (resolver.armed \/ Arms({}, TypeKeysNamed(IndexSlots(bundle.index))))
<1>. DEFINE armed == resolver.armed \/ Arms({}, TypeKeysNamed(IndexSlots(bundle.index)))
            u == [resolver EXCEPT !.armed = armed]
<1>1. resolver' = [u EXCEPT !.missing = Missing]
  BY Zenon DEF ReadIndex, Missing, DeclaredMissing
<1>. HIDE DEF armed
<1>2. PICK r : r = resolver /\ IsResolver(r)
  OBVIOUS
<1>3. u = [options |-> resolver.options, missing |-> resolver.missing, armed |-> armed]
  BY <1>2, Resolvers
<1>. HIDE DEF u
<1>4. resolver' = [options |-> resolver.options, missing |-> Missing, armed |-> armed]
  BY <1>1, <1>3
<1>5. IsResolver(resolver') /\ resolver'.options = resolver.options
      /\ resolver'.missing = Missing /\ resolver'.armed = armed
  BY <1>4 DEF IsResolver
<1>. QED
  BY <1>5 DEF armed

(* What a document makes of the resolver.                                  *)
LEMMA DocumentResolved ==
  ASSUME Stages, OptionsFollow, TypesFollow, phase = "documents", NEW d \in bundle.documents
  PROVE  LET used == UseOptions(resolver, d.values)
             q == DocumentResolver(d)
         IN  /\ Grown(resolver, used, OwedNow \cup OptionsOf(Range(d.values)))
             /\ IsResolver(q) /\ q.options = used.options /\ q.missing = Missing
             /\ q.armed = (used.armed \/ Arms(Missing, TypesLookedUp(d)))
<1>. DEFINE used == UseOptions(resolver, d.values)
            q == DocumentResolver(d)
            armed == used.armed \/ Arms(resolver.missing, TypesLookedUp(d))
<1>1. Grown(resolver, resolver, OwedNow) /\ resolver.missing = Missing
  BY DEF OptionsFollow, TypesFollow, Grown, Working, PastIndex
<1>2. IsList(d.values)
  BY DecodedAssumption DEF Stages, bundle
<1>3. Grown(resolver, used, OwedNow \cup OptionsOf(Range(d.values)))
  BY <1>1, <1>2, OwedNowIsOwed, UseOptionsGrows
<1>4. q = [used EXCEPT !.armed = armed]
  BY Zenon DEF DocumentResolver, TypesLookedUp
<1>5. IsResolver(used) /\ used.missing = Missing
  BY <1>1, <1>3 DEF Grown
<1>6. \A c : [used EXCEPT !.armed = c]
               = [options |-> used.options, missing |-> used.missing, armed |-> c]
  BY <1>5, Resolvers
<1>. HIDE DEF used, armed, q
<1>7. q = [options |-> used.options, missing |-> Missing, armed |-> armed]
  BY <1>4, <1>5, <1>6
<1>8. IsResolver(q) /\ q.options = used.options /\ q.missing = Missing /\ q.armed = armed
  BY <1>7 DEF IsResolver
<1>9. q.armed = (used.armed \/ Arms(Missing, TypesLookedUp(d)))
  BY <1>1, <1>8 DEF armed
<1>. QED
  BY <1>3, <1>8, <1>9 DEF used, q

LEMMA OptionsFollowKept ==
  Stages /\ TypesFollow /\ OptionsFollow /\ [Next]_vars => OptionsFollow'
<1>. SUFFICES ASSUME Stages, TypesFollow, OptionsFollow, [Next]_vars PROVE OptionsFollow'
  OBVIOUS
<1>0. input' = input
  BY InputStays
<1>1. /\ bundle' = bundle /\ DictionaryOptions' = DictionaryOptions
      /\ \A values : OptionsOf(values)' = OptionsOf(values)
      /\ OptionsDisagree' = OptionsDisagree /\ UnknownTypes' = UnknownTypes
  BY <1>0, WhatTheInputSays, WhatTheInputOwes, WhatTheInputAdmits
<1>2. Made' = Made => OwedNow' = OwedNow
  BY <1>1 DEF OwedNow
<1>3. todo' = todo => Made' = Made
  BY <1>1 DEF Made
<1>4. ASSUME resolver' = resolver, todo' = todo, phase' \in Working => phase \in Working
      PROVE  OptionsFollow'
  BY <1>1, <1>2, <1>3, <1>4 DEF OptionsFollow, Faithful, Working
<1>5. CASE UNCHANGED convertVars
  BY <1>4, <1>5 DEF convertVars, Working
<1>6. CASE Refusal
  BY <1>6, RefusalDoes DEF OptionsFollow, Working
<1>7. CASE AddProperties \/ AddOptionEntries \/ Return
  BY <1>4, <1>7 DEF AddProperties, AddOptionEntries, Return, Working
<1>8. CASE BuildResolver
  <2>1. /\ resolver' = NewResolver /\ Made' = {} /\ input.bundle \in Bundles
    BY <1>3, <1>8 DEF Stages, BuildResolver
  <2>2. Grown(NoOptions, NewResolver, DictionaryOptions)
    BY <2>1, NewResolverGrows
  <2>3. OwedNow' = DictionaryOptions
    BY <1>1, <2>1 DEF OwedNow
  <2>4. DictionaryOptions \subseteq OptionsOwed
    BY DEF OptionsOwed
  <2>5. NewResolver.armed => OptionsDisagree
    BY <2>2, <2>4 DEF Grown, NoOptions, OptionsDisagree
  <2>6. /\ IsResolver(NewResolver) /\ NewResolver.armed \in BOOLEAN
        /\ IsFiniteSet(NewResolver.options)
        /\ ~NewResolver.armed => Faithful(NewResolver.options, DictionaryOptions)
    BY <2>2 DEF Grown
  <2>. HIDE DEF OptionsDisagree, Faithful
  <2>. QED
    BY <1>1, <2>1, <2>3, <2>5, <2>6 DEF OptionsFollow
<1>9. CASE ReadIndex
  <2>. DEFINE arms == Arms({}, TypeKeysNamed(IndexSlots(bundle.index)))
  <2>1. phase \in Working /\ todo' = todo
    BY <1>9 DEF ReadIndex, Working
  <2>2. /\ IsResolver(resolver') /\ resolver'.options = resolver.options
        /\ resolver'.armed = (resolver.armed \/ arms)
    BY <1>9, <2>1, IndexResolver DEF OptionsFollow
  <2>3. arms \in BOOLEAN /\ (arms => UnknownTypes # {})
    BY SlotsNamed DEF Arms, UnknownTypes, TypesNamedForGood
  <2>. HIDE DEF arms, OptionsDisagree, Faithful
  <2>. QED
    BY <1>1, <1>2, <1>3, <2>1, <2>2, <2>3 DEF OptionsFollow
<1>10. CASE ConvertDocument
  <2>1. PICK d \in bundle.documents : Made' = Made \cup {d} /\ resolver' = DocumentResolver(d)
    BY <1>10, DocumentStep, Zenon
  <2>2. phase = "documents" /\ phase' = "documents"
    BY <1>10 DEF ConvertDocument
  <2>. DEFINE used == UseOptions(resolver, d.values)
              owed == OwedNow \cup OptionsOf(Range(d.values))
              arms == Arms(Missing, TypesLookedUp(d))
  <2>3. /\ Grown(resolver, used, owed)
        /\ IsResolver(resolver') /\ resolver'.options = used.options
        /\ resolver'.armed = (used.armed \/ arms)
    BY <2>1, <2>2, DocumentResolved
  <2>4. OwedNow' = owed
    BY <1>1, <2>1 DEF OwedNow
  <2>5. owed \subseteq OptionsOwed
    BY <2>1, OwedNowIsOwed DEF OptionsOwed
  <2>6. used.armed => OptionsDisagree \/ UnknownTypes # {}
    <3>1. used.armed => resolver.armed \/ OptionsDisagree
      BY <2>3, <2>5 DEF Grown, OptionsDisagree
    <3>. QED
      BY <2>2, <3>1 DEF OptionsFollow, Working
  <2>7. arms \in BOOLEAN /\ (arms => UnknownTypes # {})
    BY ArmedByTypes DEF Arms
  <2>8. /\ used.armed \in BOOLEAN /\ IsFiniteSet(used.options)
        /\ ~used.armed => Faithful(used.options, owed)
    BY <2>3 DEF Grown
  <2>. HIDE DEF used, arms, owed, OptionsDisagree, Faithful
  <2>. QED
    BY <1>1, <2>3, <2>4, <2>6, <2>7, <2>8 DEF OptionsFollow
<1>. QED
  BY <1>5, <1>6, <1>7, <1>8, <1>9, <1>10, StepKinds, ConvertSteps

LEMMA TypesFollowKept ==
  Stages /\ OptionsFollow /\ TypesFollow /\ [Next]_vars => TypesFollow'
<1>. SUFFICES ASSUME Stages, OptionsFollow, TypesFollow, [Next]_vars PROVE TypesFollow'
  OBVIOUS
<1>0. input' = input
  BY InputStays
<1>. USE DEF Working, PastIndex, PastDocuments
<1>1. /\ bundle' = bundle /\ TypeIds' = TypeIds /\ Missing' = Missing
      /\ DefinedProperties' = DefinedProperties
  BY <1>0, WhatTheInputSays, WhatTheInputAdmits, WhatTheInputOwes
<1>2. resolver'.missing = resolver.missing =>
        /\ \A d : NormalTypes(d)' = NormalTypes(d)
        /\ \A n : PropertyTargets(n)' = PropertyTargets(n)
  BY <1>1 DEF NormalTypes, Retyped, PropertyTargets
<1>3. ASSUME resolver' = resolver, todo' = todo, phase' \in PastIndex => phase \in PastIndex,
             phase' \in PastDocuments =>
               phase \in PastDocuments
               \/ \A n \in DefinedProperties : PropertyTargets(n) \subseteq DOMAIN TypeIds
      PROVE  TypesFollow'
  <2>1. Made' = Made
    BY <1>1, <1>3 DEF Made
  <2>. QED
    BY <1>1, <1>2, <1>3, <2>1 DEF TypesFollow
<1>4. CASE UNCHANGED convertVars
  BY <1>3, <1>4 DEF convertVars
<1>5. CASE Refusal
  BY <1>5, RefusalDoes DEF TypesFollow
<1>6. CASE AddProperties
  BY <1>3, <1>6 DEF AddProperties, PropertiesFit
<1>7. CASE AddOptionEntries \/ Return
  BY <1>3, <1>7 DEF AddOptionEntries, Return
<1>8. CASE BuildResolver
  BY <1>8 DEF TypesFollow, BuildResolver
<1>9. CASE ReadIndex
  <2>1. phase = "index" /\ phase' = "documents" /\ Made' = {}
    BY <1>1, <1>9 DEF ReadIndex, Stages, Made
  <2>2. /\ resolver'.missing = Missing
        /\ resolver'.armed = (resolver.armed \/ Arms({}, TypeKeysNamed(IndexSlots(bundle.index))))
    BY <1>9, <2>1, IndexResolver DEF OptionsFollow
  <2>3. ~resolver'.armed => TypeKeysNamed(IndexSlots(bundle.index)) \subseteq DOMAIN TypeIds
    BY <2>2 DEF Arms
  <2>. QED
    BY <1>1, <2>1, <2>2, <2>3 DEF TypesFollow
<1>10. CASE ConvertDocument
  <2>1. PICK d \in bundle.documents :
          ~Unconvertible(d) /\ Made' = Made \cup {d} /\ resolver' = DocumentResolver(d)
    BY <1>10, DocumentStep, Zenon
  <2>2. phase = "documents" /\ phase' = "documents"
    BY <1>10 DEF ConvertDocument
  <2>. DEFINE used == UseOptions(resolver, d.values)
              arms == Arms(Missing, TypesLookedUp(d))
  <2>3. /\ Grown(resolver, used, OwedNow \cup OptionsOf(Range(d.values)))
        /\ resolver'.missing = Missing /\ resolver'.armed = (used.armed \/ arms)
    BY <2>1, <2>2, DocumentResolved
  <2>4. resolver.missing = Missing
    BY <2>2 DEF TypesFollow
  <2>5. ~resolver'.armed => ~resolver.armed /\ ~arms
    <3>1. resolver.armed => used.armed
      BY <2>3 DEF Grown
    <3>. HIDE DEF used, arms
    <3>. QED
      BY <2>3, <3>1
  <2>6. ~arms => TypeKeysNamed(d.refs) \cup d.typeSlots \subseteq DOMAIN TypeIds \cup Missing
    BY DEF Arms, TypesLookedUp, TypeKeysNamed
  <2>7. /\ Range(NormalTypes(d)) \subseteq DOMAIN TypeIds
        /\ ~(d.kind = "template" /\ ~d.targeted /\ Len(d.types) < 2)
    BY <2>1 DEF Unconvertible
  <2>. HIDE DEF arms, used
  <2>. QED
    BY <1>1, <1>2, <2>1, <2>2, <2>3, <2>4, <2>5, <2>6, <2>7 DEF TypesFollow
<1>. QED
  BY <1>4, <1>5, <1>6, <1>7, <1>8, <1>9, <1>10, StepKinds, ConvertSteps

LEMMA LossesFollowKept ==
  Stages /\ TypesFollow /\ LossesFollow /\ [Next]_vars => LossesFollow'
<1>. SUFFICES ASSUME Stages, TypesFollow, LossesFollow, [Next]_vars PROVE LossesFollow'
  OBVIOUS
<1>0. input' = input
  BY InputStays
<1>. USE DEF Working, PastIndex, PastDocuments
<1>1. /\ bundle' = bundle /\ Missing' = Missing /\ \A d : OutputId(d)' = OutputId(d)
      /\ \A d : SpacelessMember(d)' = SpacelessMember(d)
  BY <1>0, WhatTheInputSays, WhatTheInputAdmits
<1>2. ASSUME lostMember' = lostMember, todo' = todo, told \subseteq told', files' = files,
             phase' \in PastIndex => phase \in PastIndex
      PROVE  LossesFollow'
  <2>1. Made' = Made
    BY <1>1, <1>2 DEF Made
  <2>. QED
    BY <1>1, <1>2, <2>1 DEF LossesFollow
<1>3. CASE UNCHANGED convertVars
  BY <1>2, <1>3 DEF convertVars
<1>4. CASE Refusal
  BY <1>4, RefusalDoes DEF LossesFollow
<1>5. CASE AddProperties \/ AddOptionEntries \/ Return
  BY <1>2, <1>5 DEF AddProperties, AddOptionEntries, Return
<1>6. CASE BuildResolver
  BY <1>6 DEF LossesFollow, BuildResolver
<1>7. CASE ReadIndex
  <2>1. lostMember' = FALSE /\ Made' = {}
    BY <1>1, <1>7 DEF ReadIndex, Stages, Made
  <2>. QED
    BY <2>1 DEF LossesFollow
<1>8. CASE ConvertDocument
  <2>1. PICK d \in bundle.documents :
          /\ Made' = Made \cup {d}
          /\ lostMember' = (lostMember \/
               /\ request.space = NoSpace
               /\ \E id \in d.refs \cup (IF d.kind = "participant" THEN {d.id} ELSE {}) :
                    NamesMember(id))
          /\ files' = (IF HasBytes(d) THEN files \cup {OutputId(d)} ELSE files)
          /\ told' = told \cup {<<"retyped", d.id, key>> : key \in Retyped(d)}
               \cup (IF d.kind = "file" /\ ~HasBytes(d)
                     THEN {<<"no bytes", d.id, d.remote>>} ELSE {})
    BY <1>8, DocumentStep, Zenon
  <2>2. phase = "documents" /\ resolver.missing = Missing
    BY <1>8 DEF ConvertDocument, TypesFollow
  <2>3. lostMember' = (lostMember \/ SpacelessMember(d))
    BY <2>1, Zenon DEF SpacelessMember
  <2>4. \A key \in Range(d.types) \cap Missing :
          d.kind # "type" => <<"retyped", d.id, key>> \in told'
    BY <2>1, <2>2 DEF Retyped
  <2>5. d.kind = "file" => OutputId(d) \in files' \/ <<"no bytes", d.id, d.remote>> \in told'
    BY <2>1
  <2>6. told \subseteq told' /\ files \subseteq files'
    BY <2>1
  <2>7. lostMember' \in BOOLEAN /\ (lostMember' <=> lostMember \/ SpacelessMember(d))
    BY <2>2, <2>3 DEF LossesFollow, SpacelessMember
  <2>. QED
    BY <1>1, <2>1, <2>2, <2>4, <2>5, <2>6, <2>7 DEF LossesFollow
<1>. QED
  BY <1>3, <1>4, <1>5, <1>6, <1>7, <1>8, StepKinds, ConvertSteps

-----------------------------------------------------------------------------
(***************************************************************************)
(* The entries laid so far: none is replaced, and no two become one file.  *)
(***************************************************************************)
(* What is laid over the entries where there are none replaces none.       *)
LEMMA OverKeeps ==
  ASSUME NEW new, \A place \in DOMAIN new : CanAdd(place, entries)
  PROVE  /\ DOMAIN Over(new, entries) = DOMAIN new \cup DOMAIN entries
         /\ \A place \in DOMAIN entries : Over(new, entries)[place] = entries[place]
         /\ \A place \in DOMAIN new : Over(new, entries)[place] = new[place]
<1>1. \A place \in DOMAIN new : place \notin DOMAIN entries
  BY DEF CanAdd, Collides
<1>. QED
  BY <1>1 DEF Over

(* Two definitions have two entries.                                       *)
LEMMA RelationsApart ==
  ASSUME Stages, phase \in Working, NEW n \in DefinedProperties, NEW m \in DefinedProperties,
         RelationPlace(n) = RelationPlace(m)
  PROVE  n = m
<1>. DEFINE key(k) == PropertyKey(bundle.definitions[k])
<1>1. n \in DOMAIN bundle.definitions /\ m \in DOMAIN bundle.definitions
  BY DEF DefinedProperties
<1>2. key(n) \in DOMAIN RelationId /\ key(m) \in DOMAIN RelationId
  BY <1>1, PropertyKeysAssumption DEF Stages, bundle, Range
<1>3. RelationId[key(n)] = RelationId[key(m)]
  BY DEF RelationPlace
<1>4. key(n) = key(m)
  BY <1>2, <1>3, ArchiveAssumption DEF IsInjective
<1>. QED
  BY <1>1, <1>4 DEF Stages, DuplicateProperty

PropertyEntries ==
  [place \in {RelationPlace(n) : n \in DefinedProperties} |->
     LET n == CHOOSE m \in DefinedProperties : RelationPlace(m) = place
     IN  Generated(PropertyKey(bundle.definitions[n]), <<>>,
                   [key \in PropertyTargets(n) |-> TypeIds[key]])]

OptionEntries(kept) ==
  [place \in {OptionPlace(k) : k \in kept} |->
     LET k == CHOOSE o \in kept : OptionPlace(o) = place
     IN  Generated(<<k.key, k.name>>, <<>>, <<>>)]

EntriesOfTheIndex ==
  [place \in IndexEntries |->
     LET refs == IF place[2] = WidgetsId THEN WidgetIds ELSE SpaceHomepage
     IN  Generated(NoTypeKey, <<>>, [ref \in refs |-> ref])]

(* What the steps after the documents lay over the entries.                *)
LEMMA PropertiesLaid ==
  ASSUME AddProperties
  PROVE  /\ phase = "documents" /\ phase' = "options" /\ todo = {}
         /\ UNCHANGED <<input, todo, index, resolver>>
         /\ entries' = Over(PropertyEntries, entries)
         /\ CanAddAll(DOMAIN PropertyEntries)
         /\ DOMAIN PropertyEntries = {RelationPlace(n) : n \in DefinedProperties}
         /\ \A place \in DOMAIN PropertyEntries : PropertyEntries[place].types = <<>>
BY DEF AddProperties, PropertiesFit, PropertyEntries, Generated

LEMMA OptionsLaid ==
  ASSUME AddOptionEntries
  PROVE  /\ phase = "options" /\ phase' = "index entries"
         /\ UNCHANGED <<input, todo, index, resolver>>
         /\ CanAddAll(OptionPlaces)
         /\ \E new :
              /\ entries' = Over(new, entries) /\ DOMAIN new = OptionPlaces
              /\ \A place \in DOMAIN new : new[place].types = <<>>
<1>1. PICK kept \in SUBSET resolver.options :
        /\ \A o \in resolver.options : \E k \in kept : k.id = o.id
        /\ entries' = Over(OptionEntries(kept), entries)
  BY Zenon DEF AddOptionEntries, OptionEntries
<1>2. {OptionPlace(k) : k \in kept} = OptionPlaces
  <2>1. \A o \in resolver.options : \E k \in kept : OptionPlace(k) = OptionPlace(o)
    BY <1>1 DEF OptionPlace
  <2>. QED
    BY <2>1 DEF OptionPlaces
<1>3. DOMAIN OptionEntries(kept) = OptionPlaces
  BY <1>2 DEF OptionEntries
<1>4. \A place \in DOMAIN OptionEntries(kept) : OptionEntries(kept)[place].types = <<>>
  BY DEF OptionEntries, Generated
<1>5. /\ phase = "options" /\ phase' = "index entries"
      /\ UNCHANGED <<input, todo, index, resolver>> /\ CanAddAll(OptionPlaces)
  BY DEF AddOptionEntries
<1>. QED
  BY <1>1, <1>3, <1>4, <1>5

LEMMA IndexLaid ==
  ASSUME Return
  PROVE  /\ phase = "index entries" /\ phase' = "converted"
         /\ UNCHANGED <<input, todo, index, resolver>>
         /\ entries' = Over(EntriesOfTheIndex, entries)
         /\ CanAddAll(DOMAIN EntriesOfTheIndex)
         /\ DOMAIN EntriesOfTheIndex = IndexEntries
         /\ \A place \in IndexEntries : EntriesOfTheIndex[place].types = <<>>
         /\ \A place \in DOMAIN IndexRefs :
              /\ place \in IndexEntries
              /\ DOMAIN EntriesOfTheIndex[place].refs = IndexRefs[place]
<1>1. /\ phase = "index entries" /\ phase' = "converted"
      /\ UNCHANGED <<input, todo, index, resolver>>
      /\ entries' = Over(EntriesOfTheIndex, entries) /\ CanAddAll(IndexEntries)
  BY DEF Return, EntriesOfTheIndex, Doomed, Final
<1>2. ASSUME NEW place \in IndexEntries
      PROVE  /\ EntriesOfTheIndex[place].types = <<>>
             /\ DOMAIN EntriesOfTheIndex[place].refs =
                  IF place[2] = WidgetsId THEN WidgetIds ELSE SpaceHomepage
  <2>. HIDE DEF IndexEntries, SpaceHomepage, WidgetIds
  <2>. QED
    BY <1>2 DEF EntriesOfTheIndex, Generated
<1>3. StatedHome # {} => SpaceHomepage = StatedHome
  <2>1. CASE index.homepage # {}
    BY <2>1, Zenon DEF SpaceHomepage, StatedHome
  <2>2. CASE index.homepage = {} /\ index.entrypoint # {}
    BY <2>2, Zenon DEF SpaceHomepage, StatedHome
  <2>. QED
    BY <2>1, <2>2 DEF StatedHome
<1>4. \A place \in DOMAIN IndexRefs :
        /\ place \in IndexEntries
        /\ place[2] # WidgetsId => StatedHome # {}
  BY DEF IndexRefs, IndexEntries
<1>5. DOMAIN EntriesOfTheIndex = IndexEntries
  BY DEF EntriesOfTheIndex
<1>6. ASSUME NEW place \in DOMAIN IndexRefs
      PROVE  DOMAIN EntriesOfTheIndex[place].refs = IndexRefs[place]
  <2>1. IndexRefs[place] = IF place[2] = WidgetsId THEN WidgetIds ELSE StatedHome
    BY DEF IndexRefs
  <2>. QED
    BY <1>2, <1>3, <1>4, <2>1
<1>. QED
  BY <1>1, <1>2, <1>4, <1>5, <1>6

(* A step that lays entries without memberships over the others.           *)
LEMMA EntriesKept ==
  ASSUME EntriesFollow, phase \in PastIndex, phase' \in PastIndex,
         UNCHANGED <<input, todo, index, resolver>>,
         NEW new, entries' = Over(new, entries), CanAddAll(DOMAIN new),
         \A place \in DOMAIN new : new[place].types = <<>>,
         phase' \in PastDocuments =>
           phase \in PastDocuments
           \/ \A n \in DefinedProperties :
                /\ RelationPlace(n) \in DOMAIN new
                /\ new[RelationPlace(n)].refs = [key \in PropertyTargets(n) |-> TypeIds[key]],
         phase' = "converted" =>
           \A place \in DOMAIN IndexRefs :
             place \in DOMAIN new /\ DOMAIN new[place].refs = IndexRefs[place]
  PROVE  EntriesFollow'
<1>1. /\ bundle' = bundle /\ request' = request /\ TypeIds' = TypeIds
      /\ ReaderOptions' = ReaderOptions /\ DefinedProperties' = DefinedProperties
      /\ \A d : Place(d)' = Place(d)
      /\ \A key : Native(key)' = Native(key)
      /\ \A n : RelationPlace(n)' = RelationPlace(n)
  BY WhatTheInputSays, WhatTheInputOwes
<1>2. Made' = Made /\ KnownKeys' = KnownKeys /\ \A n : PropertyTargets(n)' = PropertyTargets(n)
  BY <1>1 DEF Made, KnownKeys, PropertyTargets
<1>3. IndexRefs' = IndexRefs
  BY <1>1 DEF IndexRefs, StatedHome, HasSidebar, WidgetIds, WidgetTargets
<1>4. /\ DOMAIN entries' = DOMAIN new \cup DOMAIN entries
      /\ \A place \in DOMAIN entries : entries'[place] = entries[place]
      /\ \A place \in DOMAIN new : entries'[place] = new[place]
  <2>1. \A place \in DOMAIN new : CanAdd(place, entries)
    BY DEF CanAddAll
  <2>. QED
    BY <2>1, OverKeeps
<1>5. phase \in Working
  BY DEF PastIndex
<1>6. \A place \in DOMAIN entries' : Range(entries'[place].types) \subseteq KnownKeys
  <2>1. \A place \in DOMAIN new : Range(new[place].types) = {}
    BY DEF Range
  <2>. QED
    BY <1>4, <1>5, <2>1 DEF EntriesFollow
<1>7. \A d \in Made :
        /\ Place(d) \in DOMAIN entries'
        /\ entries'[Place(d)].refs = [ref \in d.refs |-> UnfoldRef(ReaderOptions, ref)]
        /\ d.kind = "type" => entries'[Place(d)].key = Native(d.key)
  BY <1>4, <1>5 DEF EntriesFollow
<1>8. phase' \in PastDocuments =>
        \A n \in DefinedProperties :
          /\ RelationPlace(n) \in DOMAIN entries'
          /\ entries'[RelationPlace(n)].refs = [key \in PropertyTargets(n) |-> TypeIds[key]]
  BY <1>4, <1>5 DEF EntriesFollow
<1>9. phase' = "converted" =>
        \A place \in DOMAIN IndexRefs :
          place \in DOMAIN entries' /\ DOMAIN entries'[place].refs = IndexRefs[place]
  BY <1>4
<1>. QED
  BY <1>1, <1>2, <1>3, <1>6, <1>7, <1>8, <1>9 DEF EntriesFollow

LEMMA EntriesUnchanged ==
  ASSUME EntriesFollow, UNCHANGED <<input, todo, index, entries>>,
         phase' \in Working => phase \in Working,
         phase' \in PastDocuments => phase \in PastDocuments,
         phase \in PastDocuments => resolver' = resolver,
         phase' = "converted" => phase = "converted"
  PROVE  EntriesFollow'
<1>1. /\ bundle' = bundle /\ request' = request /\ TypeIds' = TypeIds
      /\ ReaderOptions' = ReaderOptions /\ DefinedProperties' = DefinedProperties
      /\ \A d : Place(d)' = Place(d)
      /\ \A key : Native(key)' = Native(key)
      /\ \A n : RelationPlace(n)' = RelationPlace(n)
  BY WhatTheInputSays, WhatTheInputOwes
<1>2. /\ Made' = Made /\ KnownKeys' = KnownKeys
      /\ resolver' = resolver => \A n : PropertyTargets(n)' = PropertyTargets(n)
  BY <1>1 DEF Made, KnownKeys, PropertyTargets
<1>3. IndexRefs' = IndexRefs
  BY <1>1 DEF IndexRefs, StatedHome, HasSidebar, WidgetIds, WidgetTargets
<1>. QED
  BY <1>1, <1>2, <1>3 DEF EntriesFollow

LEMMA DocumentKept ==
  ASSUME Stages, EntriesFollow, ConvertDocument
  PROVE  EntriesFollow'
<1>. USE DEF Working, PastDocuments
<1>1. PICK d \in bundle.documents :
        /\ ~Unconvertible(d) /\ Made' = Made \cup {d}
        /\ entries' = Over([place \in {Place(d)} |-> ConvertedDocument(d)], entries)
  BY DocumentStep, Zenon
<1>2. input' = input /\ phase = "documents" /\ phase' = "documents"
  BY DEF ConvertDocument
<1>3. /\ KnownKeys' = KnownKeys /\ ReaderOptions' = ReaderOptions
      /\ \A e : Place(e)' = Place(e)
      /\ \A key : Native(key)' = Native(key)
  BY <1>2, WhatTheInputSays DEF KnownKeys
<1>4. CanAdd(Place(d), entries) /\ Range(NormalTypes(d)) \subseteq DOMAIN TypeIds
  BY <1>1 DEF Unconvertible
<1>5. /\ ConvertedDocument(d).types = Memberships(NormalTypes(d))
      /\ ConvertedDocument(d).refs = [ref \in d.refs |-> UnfoldRef(ReaderOptions, ref)]
      /\ d.kind = "type" => ConvertedDocument(d).key = Native(d.key)
  BY DEF ConvertedDocument
<1>6. Range(ConvertedDocument(d).types) \subseteq KnownKeys
  BY <1>4, <1>5 DEF Range, Memberships, KnownKeys
<1>7. /\ DOMAIN entries' = {Place(d)} \cup DOMAIN entries
      /\ \A place \in DOMAIN entries : entries'[place] = entries[place]
      /\ entries'[Place(d)] = ConvertedDocument(d)
  BY <1>1, <1>4, OverKeeps
<1>8. \A e \in Made \cup {d} :
        /\ Place(e) \in DOMAIN entries'
        /\ entries'[Place(e)].refs = [ref \in e.refs |-> UnfoldRef(ReaderOptions, ref)]
        /\ e.kind = "type" => entries'[Place(e)].key = Native(e.key)
  BY <1>2, <1>5, <1>7 DEF EntriesFollow
<1>9. \A place \in DOMAIN entries' : Range(entries'[place].types) \subseteq KnownKeys
  BY <1>2, <1>6, <1>7 DEF EntriesFollow
<1>. QED
  BY <1>1, <1>2, <1>3, <1>8, <1>9 DEF EntriesFollow

LEMMA EntriesFollowKept == Stages /\ EntriesFollow /\ [Next]_vars => EntriesFollow'
<1>. SUFFICES ASSUME Stages, EntriesFollow, [Next]_vars PROVE EntriesFollow'
  OBVIOUS
<1>. USE DEF Working, PastIndex, PastDocuments
<1>0. input' = input
  BY InputStays
<1>1. CASE UNCHANGED convertVars
  BY <1>1, EntriesUnchanged DEF convertVars
<1>2. CASE Refusal
  BY <1>2, RefusalDoes DEF EntriesFollow
<1>3. CASE BuildResolver
  <2>1. Made' = {} /\ DOMAIN entries' = {} /\ phase' = "index"
    BY <1>3, WhatTheInputSays DEF BuildResolver, Stages, Made
  <2>. QED
    BY <2>1 DEF EntriesFollow
<1>4. CASE ReadIndex
  <2>1. Made' = {} /\ DOMAIN entries' = {} /\ phase' = "documents"
    BY <1>4, WhatTheInputSays DEF ReadIndex, Stages, Made
  <2>. QED
    BY <2>1 DEF EntriesFollow
<1>5. CASE ConvertDocument
  BY <1>5, DocumentKept
<1>6. CASE AddProperties
  <2>1. ASSUME NEW n \in DefinedProperties
        PROVE  /\ RelationPlace(n) \in DOMAIN PropertyEntries
               /\ PropertyEntries[RelationPlace(n)].refs
                    = [key \in PropertyTargets(n) |-> TypeIds[key]]
    <3>. DEFINE m == CHOOSE k \in DefinedProperties : RelationPlace(k) = RelationPlace(n)
    <3>1. m \in DefinedProperties /\ RelationPlace(m) = RelationPlace(n)
      OBVIOUS
    <3>2. m = n
      BY <1>6, <3>1, RelationsApart DEF AddProperties
    <3>3. RelationPlace(n) \in DOMAIN PropertyEntries
      BY <1>6, PropertiesLaid
    <3>4. PropertyEntries[RelationPlace(n)] =
            Generated(PropertyKey(bundle.definitions[m]), <<>>,
                      [key \in PropertyTargets(m) |-> TypeIds[key]])
      BY <3>3 DEF PropertyEntries
    <3>. HIDE DEF m
    <3>. QED
      BY <3>2, <3>3, <3>4 DEF Generated
  <2>. QED
    BY <1>6, <2>1, PropertiesLaid, EntriesKept
<1>7. CASE AddOptionEntries
  <2>1. PICK new : /\ entries' = Over(new, entries) /\ DOMAIN new = OptionPlaces
                   /\ \A place \in DOMAIN new : new[place].types = <<>>
    BY <1>7, OptionsLaid
  <2>. QED
    BY <1>7, <2>1, OptionsLaid, EntriesKept
<1>8. CASE Return
  BY <1>8, IndexLaid, EntriesKept
<1>. QED
  BY <1>1, <1>2, <1>3, <1>4, <1>5, <1>6, <1>7, <1>8, StepKinds, ConvertSteps

-----------------------------------------------------------------------------
(* One place more, or several: no two of the entries become one file.      *)
LEMMA ClashIsMutual ==
  ASSUME NEW p, NEW q, Clash(p, q)
  PROVE  Clash(q, p)
BY DEF Clash

LEMMA OneMoreApart ==
  ASSUME NEW owed, EntriesApart(owed), NEW o, CanAdd(o.place, entries),
         DOMAIN entries = {other.place : other \in owed}
  PROVE  EntriesApart(owed \cup {o})
<1>1. \A other \in owed : ~Clash(o.place, other.place) /\ ~Clash(other.place, o.place)
  <2>. SUFFICES ASSUME NEW other \in owed PROVE ~Clash(o.place, other.place)
    BY ClashIsMutual
  <2>1. other.place \in DOMAIN entries
    OBVIOUS
  <2>. QED
    BY <2>1 DEF CanAdd, Collides, Clash
<1>2. o.place[2] \notin UnsafeOutputs
  BY DEF CanAdd
<1>. QED
  BY <1>1, <1>2 DEF EntriesApart

LEMMA ManyMoreApart ==
  ASSUME NEW owed, EntriesApart(owed), NEW places, CanAddAll(places),
         DOMAIN entries = {other.place : other \in owed}
  PROVE  EntriesApart(owed \cup {OwedEntry({}, place) : place \in places})
<1>. DEFINE new == {OwedEntry({}, place) : place \in places}
<1>1. \A o \in new : o.place \in places /\ o = OwedEntry({}, o.place)
  BY DEF OwedEntry
<1>2. ASSUME NEW o \in new, NEW other \in owed
      PROVE  ~Clash(o.place, other.place) /\ ~Clash(other.place, o.place)
  <2>1. other.place \in DOMAIN entries /\ CanAdd(o.place, entries)
    BY <1>1 DEF CanAddAll
  <2>2. ~Clash(o.place, other.place)
    BY <2>1 DEF CanAdd, Collides, Clash
  <2>. QED
    BY <2>2, ClashIsMutual
<1>3. ASSUME NEW o1 \in new, NEW o2 \in new, o1 # o2
      PROVE  ~Clash(o1.place, o2.place)
  <2>1. o1.place # o2.place
    BY <1>1, <1>3
  <2>2. LowerCase[o1.place[2]] # LowerCase[o2.place[2]]
    BY <1>1, <2>1 DEF CanAddAll
  <2>. QED
    BY <2>2 DEF Clash
<1>4. \A o \in new : o.place[2] \notin UnsafeOutputs
  BY <1>1 DEF CanAddAll, CanAdd
<1>. HIDE DEF new
<1>5. EntriesApart(owed \cup new)
  BY <1>2, <1>3, <1>4 DEF EntriesApart
<1>. QED
  BY <1>5 DEF new

LEMMA ApartKept == Stages /\ Apart /\ [Next]_vars => Apart'
<1>. SUFFICES ASSUME Stages, Apart, [Next]_vars PROVE Apart'
  OBVIOUS
<1>. USE DEF Working, PastIndex, PastDocuments, PastOptions
<1>0. input' = input
  BY InputStays
<1>1. /\ bundle' = bundle /\ request' = request /\ DefinedProperties' = DefinedProperties
      /\ \A d : Place(d)' = Place(d)
      /\ \A n : RelationPlace(n)' = RelationPlace(n)
  BY <1>0, WhatTheInputSays, WhatTheInputOwes
<1>2. /\ todo' = todo => Made' = Made
      /\ resolver' = resolver => OptionPlaces' = OptionPlaces
      /\ index' = index => IndexEntries' = IndexEntries
  BY <1>1 DEF Made, OptionPlaces, OptionPlace, IndexEntries, HasSidebar
<1>3. CASE UNCHANGED convertVars
  <2>1. /\ phase' = phase /\ entries' = entries /\ Made' = Made
        /\ OptionPlaces' = OptionPlaces /\ IndexEntries' = IndexEntries
    BY <1>2, <1>3 DEF convertVars
  <2>2. PlacesNow' = PlacesNow
    BY <1>1, <2>1 DEF PlacesNow
  <2>3. EntriesOwedNow' = EntriesOwedNow
    BY <1>1, <2>1, <2>2 DEF EntriesOwedNow
  <2>. QED
    BY <2>1, <2>3 DEF Apart, EntriesApart
<1>4. CASE Refusal
  BY <1>4, RefusalDoes DEF Apart
<1>5. CASE BuildResolver
  <2>1. Made' = {} /\ DOMAIN entries' = {} /\ phase' = "index"
    BY <1>2, <1>5 DEF BuildResolver, Stages
  <2>2. EntriesOwedNow' = {}
    BY <2>1 DEF EntriesOwedNow, PlacesNow
  <2>. QED
    BY <2>1, <2>2 DEF Apart, EntriesApart
<1>6. CASE ReadIndex
  <2>1. Made' = {} /\ DOMAIN entries' = {} /\ phase' = "documents"
    BY <1>2, <1>6 DEF ReadIndex, Stages
  <2>2. EntriesOwedNow' = {}
    BY <2>1 DEF EntriesOwedNow, PlacesNow
  <2>. QED
    BY <2>1, <2>2 DEF Apart, EntriesApart
<1>7. CASE ConvertDocument
  <2>1. PICK d \in bundle.documents :
          /\ ~Unconvertible(d) /\ Made' = Made \cup {d}
          /\ entries' = Over([place \in {Place(d)} |-> ConvertedDocument(d)], entries)
    BY <1>7, DocumentStep, Zenon
  <2>2. phase = "documents" /\ phase' = "documents"
    BY <1>7 DEF ConvertDocument
  <2>. DEFINE o == OwedEntry({d}, Place(d))
  <2>3. EntriesOwedNow' = EntriesOwedNow \cup {o}
    BY <1>1, <2>1, <2>2 DEF EntriesOwedNow, PlacesNow
  <2>4. o.place = Place(d) /\ CanAdd(o.place, entries)
    BY <2>1 DEF OwedEntry, Unconvertible
  <2>5. DOMAIN entries' = DOMAIN entries \cup {o.place}
    BY <2>1, <2>4, OverKeeps
  <2>6. DOMAIN entries = {other.place : other \in EntriesOwedNow} /\ EntriesApart(EntriesOwedNow)
    BY <2>2 DEF Apart
  <2>. HIDE DEF o
  <2>7. EntriesApart(EntriesOwedNow \cup {o})
    BY <2>4, <2>6, OneMoreApart
  <2>8. DOMAIN entries' = {other.place : other \in EntriesOwedNow \cup {o}}
    BY <2>5, <2>6
  <2>. QED
    BY <2>3, <2>7, <2>8 DEF Apart, EntriesApart
<1>8. ASSUME NEW places, NEW new, CanAddAll(places), DOMAIN new = places,
             entries' = Over(new, entries), phase \in Working,
             EntriesOwedNow' = EntriesOwedNow \cup {OwedEntry({}, place) : place \in places}
      PROVE  Apart'
  <2>1. DOMAIN entries = {other.place : other \in EntriesOwedNow} /\ EntriesApart(EntriesOwedNow)
    BY <1>8 DEF Apart
  <2>2. EntriesApart(EntriesOwedNow \cup {OwedEntry({}, place) : place \in places})
    BY <1>8, <2>1, ManyMoreApart
  <2>3. DOMAIN entries' = places \cup DOMAIN entries
    BY <1>8, OverKeeps DEF CanAddAll
  <2>4. {o.place : o \in {OwedEntry({}, place) : place \in places}} = places
    <3>1. \A place \in places : OwedEntry({}, place).place = place
      BY DEF OwedEntry
    <3>. DEFINE more == {OwedEntry({}, place) : place \in places}
    <3>2. \A place \in places : place \in {o.place : o \in more}
      BY <3>1
    <3>3. \A o \in more : o.place \in places
      BY <3>1
    <3>. QED
      BY <3>2, <3>3
  <2>5. DOMAIN entries' = {o.place : o \in EntriesOwedNow \cup {OwedEntry({}, place) : place \in places}}
    BY <2>1, <2>3, <2>4
  <2>. QED
    BY <1>8, <2>2, <2>5 DEF Apart, EntriesApart
<1>9. CASE AddProperties
  <2>1. PlacesNow = {} /\ PlacesNow' = {RelationPlace(n) : n \in DefinedProperties}
    BY <1>1, <1>9, PropertiesLaid DEF PlacesNow
  <2>2. EntriesOwedNow' = EntriesOwedNow
          \cup {OwedEntry({}, place) : place \in {RelationPlace(n) : n \in DefinedProperties}}
    BY <1>1, <1>2, <1>9, <2>1, PropertiesLaid DEF EntriesOwedNow
  <2>. QED
    BY <1>8, <1>9, <2>2, PropertiesLaid
<1>10. CASE AddOptionEntries
  <2>1. PlacesNow' = PlacesNow \cup OptionPlaces
    BY <1>1, <1>2, <1>10, OptionsLaid DEF PlacesNow
  <2>2. EntriesOwedNow' = EntriesOwedNow \cup {OwedEntry({}, place) : place \in OptionPlaces}
    BY <1>1, <1>2, <1>10, <2>1, OptionsLaid DEF EntriesOwedNow
  <2>3. PICK new : entries' = Over(new, entries) /\ DOMAIN new = OptionPlaces
    BY <1>10, OptionsLaid
  <2>. QED
    BY <1>8, <1>10, <2>2, <2>3, OptionsLaid
<1>11. CASE Return
  <2>1. PlacesNow' = PlacesNow \cup IndexEntries
    BY <1>1, <1>2, <1>11, IndexLaid DEF PlacesNow
  <2>2. EntriesOwedNow' = EntriesOwedNow \cup {OwedEntry({}, place) : place \in IndexEntries}
    BY <1>1, <1>2, <1>11, <2>1, IndexLaid DEF EntriesOwedNow
  <2>. QED
    BY <1>8, <1>11, <2>2, IndexLaid
<1>. QED
  BY <1>3, <1>4, <1>5, <1>6, <1>7, <1>9, <1>10, <1>11, StepKinds, ConvertSteps

-----------------------------------------------------------------------------
(***************************************************************************)
(* Every refusal has its cause.                                            *)
(***************************************************************************)
(* A cause once there stays, while the options and the index are the same. *)
LEMMA CauseStays ==
  ASSUME UNCHANGED <<input, index, resolver>>
  PROVE  CauseForRefusal' = CauseForRefusal
<1>1. /\ bundle' = bundle /\ request' = request
      /\ Inspected' = Inspected /\ NativeClash' = NativeClash
      /\ DuplicateProperty' = DuplicateProperty /\ UnknownTypes' = UnknownTypes
      /\ MembersWithoutASpace' = MembersWithoutASpace
      /\ DeclarationsMerge' = DeclarationsMerge /\ OptionsDisagree' = OptionsDisagree
  BY WhatTheInputSays, WhatTheInputAdmits, WhatTheInputOwes
<1>2. /\ DefinedProperties' = DefinedProperties
      /\ \A d : Place(d)' = Place(d)
      /\ \A n : RelationPlace(n)' = RelationPlace(n)
  BY WhatTheInputSays, WhatTheInputOwes
<1>3. OptionPlaces' = OptionPlaces /\ IndexEntries' = IndexEntries
  BY <1>1 DEF OptionPlaces, OptionPlace, IndexEntries, HasSidebar
<1>4. EntriesOwed' = EntriesOwed
  BY <1>1, <1>2, <1>3 DEF EntriesOwed
<1>5. IdsClash' = IdsClash
  BY <1>4 DEF IdsClash
<1>. QED
  BY <1>1, <1>5 DEF CauseForRefusal

(* What is owed so far is owed.                                            *)
LEMMA NowOwed == EntriesOwedNow \subseteq EntriesOwed
<1>1. \A d \in Made : d \in bundle.documents
  BY DEF Made
<1>2. PlacesNow \subseteq {RelationPlace(n) : n \in DefinedProperties}
                            \cup OptionPlaces \cup IndexEntries
  BY DEF PlacesNow
<1>. QED
  BY <1>1, <1>2 DEF EntriesOwedNow, EntriesOwed, OwedEntry

LEMMA OwedToThePlaces ==
  \A place \in {RelationPlace(n) : n \in DefinedProperties} \cup OptionPlaces \cup IndexEntries :
    OwedEntry({}, place) \in EntriesOwed
BY DEF EntriesOwed, OwedEntry

(* Each of the places generated has the directory of its kind.             *)
LEMMA Directories ==
  /\ \A place \in {RelationPlace(n) : n \in DefinedProperties} : place[1] = "relations"
  /\ \A place \in OptionPlaces : place[1] = "relationsOptions"
  /\ \A place \in IndexEntries : place[1] = "objects"
<1>1. \A n : RelationPlace(n)[1] = "relations"
  BY DEF RelationPlace
<1>2. \A o : OptionPlace(o)[1] = "relationsOptions"
  BY DEF OptionPlace
<1>3. \A place \in IndexEntries : place[1] = "objects"
  BY DEF IndexEntries
<1>. QED
  BY <1>1, <1>2, <1>3 DEF OptionPlaces

(* An entry that cannot be added is one of two that need one id.           *)
LEMMA NoRoom ==
  ASSUME Apart, phase \in Working, NEW o \in EntriesOwed \ EntriesOwedNow,
         ~CanAdd(o.place, entries)
  PROVE  IdsClash
<1>1. CASE o.place[2] \in UnsafeOutputs
  BY <1>1 DEF IdsClash
<1>2. CASE Collides(o.place, entries)
  <2>1. PICK place \in DOMAIN entries : Clash(o.place, place)
    BY <1>2, Zenon DEF Collides, Clash
  <2>2. PICK other \in EntriesOwedNow : place = other.place
    BY <2>1 DEF Apart
  <2>3. other \in EntriesOwed /\ other # o
    BY NowOwed
  <2>. QED
    BY <2>1, <2>2, <2>3 DEF IdsClash
<1>. QED
  BY <1>1, <1>2 DEF CanAdd

LEMMA NoRoomForAll ==
  ASSUME Apart, phase \in Working, NEW places, NEW directory,
         \A place \in places :
           /\ place[1] = directory
           /\ OwedEntry({}, place) \in EntriesOwed /\ place \notin PlacesNow,
         ~CanAddAll(places)
  PROVE  IdsClash
<1>1. PICK place \in places :
        \/ ~CanAdd(place, entries)
        \/ \E other \in places \ {place} : LowerCase[other[2]] = LowerCase[place[2]]
  BY DEF CanAddAll
<1>2. \A p : OwedEntry({}, p).place = p /\ OwedEntry({}, p).from = {}
  BY DEF OwedEntry
<1>3. \A p \in places : OwedEntry({}, p) \notin EntriesOwedNow
  <2>. SUFFICES ASSUME NEW p \in places, OwedEntry({}, p) \in EntriesOwedNow PROVE FALSE
    OBVIOUS
  <2>1. \A d \in Made : OwedEntry({d}, Place(d)).from = {d}
    BY DEF OwedEntry
  <2>2. PICK q \in PlacesNow : OwedEntry({}, p) = OwedEntry({}, q)
    BY <1>2, <2>1 DEF EntriesOwedNow
  <2>. QED
    BY <1>2, <2>2
<1>4. CASE ~CanAdd(place, entries)
  BY <1>2, <1>3, <1>4, NoRoom
<1>5. CASE \E other \in places \ {place} : LowerCase[other[2]] = LowerCase[place[2]]
  <2>1. PICK other \in places \ {place} : LowerCase[other[2]] = LowerCase[place[2]]
    BY <1>5
  <2>2. Clash(place, other)
    BY <2>1 DEF Clash
  <2>3. /\ OwedEntry({}, place) \in EntriesOwed /\ OwedEntry({}, other) \in EntriesOwed
        /\ OwedEntry({}, place) # OwedEntry({}, other)
    BY <1>2, <2>1
  <2>. QED
    BY <1>2, <2>2, <2>3 DEF IdsClash
<1>. QED
  BY <1>1, <1>4, <1>5

LEMMA DocumentBlamed ==
  ASSUME Stages, TypesFollow, Apart, RefuseDocument
  PROVE  CauseForRefusal
<1>. USE DEF Working, PastIndex
<1>1. PICK d \in bundle.documents : Current(d) /\ Unconvertible(d)
  BY DEF RefuseDocument
<1>2. phase = "documents" /\ d \notin Made
  BY <1>1 DEF RefuseDocument, Refuse, Made, Current
<1>3. CASE ~ Range(NormalTypes(d)) \subseteq DOMAIN TypeIds
  <2>1. PICK n \in DOMAIN d.types : NormalTypes(d)[n] \notin DOMAIN TypeIds
    BY <1>3 DEF Range, NormalTypes
  <2>2. PageKey \in DOMAIN TypeIds
    BY TypeIdsAnswer, ArchiveAssumption
  <2>3. d.types[n] \notin DOMAIN TypeIds /\ d.types[n] \notin Retyped(d)
    BY <2>1, <2>2 DEF NormalTypes
  <2>4. d.types[n] \in Range(d.types)
    BY DEF Range
  <2>5. CASE d.kind = "type"
    BY <2>3, <2>4, <2>5 DEF CauseForRefusal, UnknownTypes, TypesNamedForGood, TypeDocuments
  <2>6. CASE d.kind # "type"
    <3>1. d.types[n] \notin Missing
      BY <1>2, <2>3, <2>4, <2>6 DEF Retyped, TypesFollow
    <3>2. d.types[n] \notin DeclaredMissing
      BY <2>3, <3>1, TypeIdsAnswer DEF Missing
    <3>3. d.types[n] \in TypesNamed
      BY <2>4 DEF TypesNamed
    <3>. QED
      BY <2>3, <3>2, <3>3 DEF CauseForRefusal, UnknownTypes
  <2>. QED
    BY <2>5, <2>6
<1>4. CASE d.kind = "template" /\ ~d.targeted /\ Len(d.types) < 2
  BY <1>4 DEF CauseForRefusal
<1>5. CASE ~CanAdd(Place(d), entries)
  <2>1. OwedEntry({d}, Place(d)) \in EntriesOwed
    BY DEF OwedEntry, EntriesOwed
  <2>2. \A from, place : OwedEntry(from, place).place = place /\ OwedEntry(from, place).from = from
    BY DEF OwedEntry
  <2>3. OwedEntry({d}, Place(d)) \notin EntriesOwedNow
    <3>1. \A e \in Made : OwedEntry({d}, Place(d)) # OwedEntry({e}, Place(e))
      <4>1. \A e \in Made : {e} # {d}
        BY <1>2
      <4>. QED
        BY <2>2, <4>1
    <3>2. \A place : OwedEntry({d}, Place(d)) # OwedEntry({}, place)
      BY <2>2
    <3>. QED
      BY <3>1, <3>2 DEF EntriesOwedNow
  <2>. QED
    BY <1>2, <1>5, <2>1, <2>2, <2>3, NoRoom DEF CauseForRefusal
<1>. QED
  BY <1>1, <1>3, <1>4, <1>5 DEF Unconvertible

LEMMA PropertiesBlamed ==
  ASSUME Stages, TypesFollow, Apart, RefuseProperties
  PROVE  CauseForRefusal
<1>. USE DEF Working, PastIndex, PastDocuments, PastOptions
<1>1. phase = "documents" /\ ~PropertiesFit
  BY DEF RefuseProperties, Refuse
<1>2. CASE \E n \in DefinedProperties : ~ PropertyTargets(n) \subseteq DOMAIN TypeIds
  <2>1. PICK n \in DefinedProperties :
          \E key \in PropertyTargets(n) : key \notin DOMAIN TypeIds
    BY <1>2
  <2>2. PICK key \in PropertyTargets(n) : key \notin DOMAIN TypeIds
    BY <2>1
  <2>3. /\ key \in bundle.definitions[n].targets \ {Sentinel}
        /\ key \notin Missing
    BY <1>1, <2>2 DEF PropertyTargets, TypesFollow
  <2>4. key \notin DeclaredMissing
    BY <2>2, <2>3, TypeIdsAnswer DEF Missing
  <2>5. key \in TypesNamed
    BY <2>1, <2>3 DEF TypesNamed
  <2>. QED
    BY <2>2, <2>4, <2>5 DEF CauseForRefusal, UnknownTypes
<1>3. CASE ~CanAddAll({RelationPlace(n) : n \in DefinedProperties})
  <2>1. PlacesNow = {}
    BY <1>1 DEF PlacesNow
  <2>2. IdsClash
    BY <1>1, <1>3, <2>1, OwedToThePlaces, Directories, NoRoomForAll
  <2>. QED
    BY <2>2 DEF CauseForRefusal
<1>. QED
  BY <1>1, <1>2, <1>3 DEF PropertiesFit

LEMMA OptionsBlamed ==
  ASSUME Apart, RefuseOptions
  PROVE  CauseForRefusal
<1>. USE DEF Working, PastDocuments, PastOptions
<1>1. phase = "options" /\ ~CanAddAll(OptionPlaces)
  BY DEF RefuseOptions, Refuse
<1>2. \A place \in PlacesNow : place[1] = "relations"
  BY <1>1, Directories DEF PlacesNow
<1>3. \A place \in OptionPlaces : place \notin PlacesNow
  BY <1>2, Directories
<1>4. IdsClash
  BY <1>1, <1>3, OwedToThePlaces, Directories, NoRoomForAll
<1>. QED
  BY <1>4 DEF CauseForRefusal

LEMMA TheEndBlamed ==
  ASSUME Stages, OptionsFollow, LossesFollow, Apart, RefuseAtTheEnd
  PROVE  CauseForRefusal
<1>. USE DEF Working, PastIndex, PastDocuments, PastOptions
<1>1. /\ phase = "index entries"
      /\ resolver.armed \/ lostMember \/ IconLosesAMember \/ ~CanAddAll(IndexEntries)
  BY DEF RefuseAtTheEnd, Refuse, Doomed, Final
<1>2. CASE resolver.armed
  BY <1>1, <1>2 DEF OptionsFollow, CauseForRefusal
<1>3. CASE lostMember
  <2>1. PICK d \in Made : SpacelessMember(d)
    BY <1>1, <1>3 DEF LossesFollow
  <2>. QED
    BY <2>1 DEF CauseForRefusal, MembersWithoutASpace, SpacelessMember, Made
<1>4. CASE ~CanAddAll(IndexEntries)
  <2>1. \A place \in PlacesNow : place[1] \in {"relations", "relationsOptions"}
    BY <1>1, Directories DEF PlacesNow
  <2>2. \A place \in IndexEntries : place \notin PlacesNow
    BY <2>1, Directories
  <2>3. IdsClash
    BY <1>1, <1>4, <2>2, OwedToThePlaces, Directories, NoRoomForAll
  <2>. QED
    BY <2>3 DEF CauseForRefusal
<1>5. CASE IconLosesAMember
  BY <1>5 DEF CauseForRefusal, MembersWithoutASpace
<1>. QED
  BY <1>1, <1>2, <1>3, <1>4, <1>5

LEMMA BlamedKept ==
  /\ Stages /\ OptionsFollow /\ TypesFollow /\ LossesFollow /\ Apart /\ Blamed
  /\ [Next]_vars
  => Blamed'
<1>. SUFFICES ASSUME Stages, OptionsFollow, TypesFollow, LossesFollow, Apart, Blamed,
                     [Next]_vars
              PROVE  Blamed'
  OBVIOUS
<1>1. CASE UNCHANGED convertVars
  BY <1>1, CauseStays DEF convertVars, Blamed, Refused
<1>2. CASE Refusal
  <2>1. CauseForRefusal' = CauseForRefusal
    BY <1>2, RefusalDoes, CauseStays
  <2>. QED
    <3>1. CASE UNCHANGED convertVars
      BY <3>1, <1>1
    <3>2. CASE RefuseRequest \/ RefuseInspected \/ RefuseTree \/ RefuseResolver \/ RefuseIndex
      BY <2>1, <3>2 DEF RefuseRequest, RefuseInspected, RefuseTree, RefuseResolver,
                        RefuseIndex, Blamed, CauseForRefusal
    <3>3. CASE RefuseDocument \/ RefuseProperties \/ RefuseOptions \/ RefuseAtTheEnd
      BY <2>1, <3>3, DocumentBlamed, PropertiesBlamed, OptionsBlamed, TheEndBlamed DEF Blamed
    <3>4. CASE BuildResolver \/ ReadIndex \/ ConvertDocument \/ AddProperties
               \/ AddOptionEntries \/ Return
      BY <1>2, <3>4, RefusalDoes
         DEF BuildResolver, ReadIndex, ConvertDocument, AddProperties, AddOptionEntries, Return,
             Stages, Working
    <3>. QED
      BY <3>1, <3>2, <3>3, <3>4, StepKinds DEF ConvertStep
<1>3. CASE BuildResolver \/ ReadIndex \/ ConvertDocument \/ AddProperties
           \/ AddOptionEntries \/ Return
  <2>1. phase' # "refused"
    BY <1>3 DEF BuildResolver, ReadIndex, ConvertDocument, AddProperties, AddOptionEntries,
                Return
  <2>. QED
    BY <2>1 DEF Blamed, Refused
<1>. QED
  BY <1>1, <1>2, <1>3, StepKinds, ConvertSteps

-----------------------------------------------------------------------------
(***************************************************************************)
(* The invariant, and what it says of a bundle that has been converted.    *)
(***************************************************************************)
(* The errors a run carries along are read before it ends.                 *)
ErrorsRead == Converted => ~resolver.armed /\ ~lostMember /\ ~IconLosesAMember

LEMMA ErrorsReadKept == Stages /\ ErrorsRead /\ [Next]_vars => ErrorsRead'
<1>. SUFFICES ASSUME Stages, ErrorsRead, [Next]_vars PROVE ErrorsRead'
  OBVIOUS
<1>0. IconLosesAMember' = IconLosesAMember
  <2>1. input' = input
    BY InputStays
  <2>. QED
    BY <2>1, WhatTheInputAdmits
<1>1. CASE UNCHANGED convertVars
  BY <1>0, <1>1 DEF convertVars, ErrorsRead, Converted
<1>2. CASE Refusal
  BY <1>2, RefusalDoes DEF ErrorsRead, Converted
<1>3. CASE BuildResolver \/ ReadIndex \/ ConvertDocument \/ AddProperties \/ AddOptionEntries
  <2>1. phase' # "converted"
    BY <1>3 DEF BuildResolver, ReadIndex, ConvertDocument, AddProperties, AddOptionEntries
  <2>. QED
    BY <2>1 DEF ErrorsRead, Converted
<1>4. CASE Return
  BY <1>0, <1>4 DEF Return, Doomed, Final, ErrorsRead
<1>. QED
  BY <1>1, <1>2, <1>3, <1>4, StepKinds, ConvertSteps

(* What the conversion keeps, all of it.                                   *)
Conversion ==
  /\ Stages /\ OptionsFollow /\ TypesFollow /\ LossesFollow
  /\ Apart /\ EntriesFollow /\ Blamed /\ ErrorsRead

LEMMA ConversionStarts == Init => Conversion
<1>. SUFFICES ASSUME Init PROVE Conversion
  OBVIOUS
<1>1. phase = "called"
  BY DEF Init, StartConvert
<1>2. entries = <<>>
  BY DEF Init, StartConvert
<1>3. DOMAIN entries = {}
  BY <1>2
<1>4. /\ phase \notin Working /\ phase \notin PastIndex /\ phase \notin PastDocuments
  BY <1>1 DEF Working, PastIndex, PastDocuments
<1>5. OptionsFollow /\ TypesFollow /\ LossesFollow /\ Apart
  BY <1>4 DEF OptionsFollow, TypesFollow, LossesFollow, Apart
<1>6. EntriesFollow
  BY <1>3, <1>4 DEF EntriesFollow
<1>7. Blamed /\ ErrorsRead
  BY <1>1 DEF Blamed, Refused, ErrorsRead, Converted
<1>. QED
  BY <1>5, <1>6, <1>7, StagesAtFirst DEF Conversion

LEMMA ConversionKept == Conversion /\ [Next]_vars => Conversion'
BY StagesKept, OptionsFollowKept, TypesFollowKept, LossesFollowKept, ApartKept,
   EntriesFollowKept, BlamedKept, ErrorsReadKept
   DEF Conversion

LEMMA AllMade ==
  ASSUME Conversion, Converted
  PROVE  /\ Made = bundle.documents /\ todo = {} /\ index = DecodedIndex
         /\ input.bundle \in Bundles
         /\ {phase} \subseteq Working \cap PastIndex \cap PastDocuments \cap PastOptions
<1>1. todo = {} /\ index = DecodedIndex /\ input.bundle \in Bundles
      /\ {phase} \subseteq Working \cap PastIndex \cap PastDocuments \cap PastOptions
  BY DEF Conversion, Stages, Converted, Working, PastIndex, PastDocuments, PastOptions
<1>. QED
  BY <1>1 DEF Made

(***************************************************************************)
(* No cause is left when a bundle has been converted.                      *)
(***************************************************************************)
LEMMA TypesKnownAtTheEnd ==
  ASSUME Conversion, Converted
  PROVE  UnknownTypes = {}
<1>1. /\ resolver.missing = Missing
      /\ TypeKeysNamed(IndexSlots(bundle.index)) \subseteq DOMAIN TypeIds
      /\ \A d \in bundle.documents :
           /\ TypeKeysNamed(d.refs) \cup d.typeSlots \subseteq DOMAIN TypeIds \cup Missing
           /\ Range(NormalTypes(d)) \subseteq DOMAIN TypeIds
      /\ \A n \in DefinedProperties : PropertyTargets(n) \subseteq DOMAIN TypeIds
  BY AllMade DEF Conversion, TypesFollow, ErrorsRead
<1>2. ASSUME NEW d \in bundle.documents, NEW key \in Range(d.types)
      PROVE  key \in DOMAIN TypeIds \/ (key \in DeclaredMissing /\ d.kind # "type")
  <2>1. PICK n \in DOMAIN d.types : key = d.types[n]
    BY <1>2 DEF Range
  <2>2. key \notin Retyped(d) => NormalTypes(d)[n] = key
    BY <2>1 DEF NormalTypes
  <2>3. NormalTypes(d)[n] \in Range(NormalTypes(d))
    BY <2>1 DEF NormalTypes, Range
  <2>4. key \in Retyped(d) => d.kind # "type" /\ key \in DeclaredMissing
    BY <1>1 DEF Retyped, Missing
  <2>. QED
    BY <1>1, <2>2, <2>3, <2>4
<1>3. \A key \in TypesNamed : key \in DOMAIN TypeIds \/ key \in DeclaredMissing
  <2>1. ASSUME NEW d \in bundle.documents,
               NEW key \in Range(d.types) \cup d.typeSlots \cup TypeKeysNamed(d.refs)
        PROVE  key \in DOMAIN TypeIds \/ key \in DeclaredMissing
    BY <1>1, <1>2, <2>1 DEF Missing
  <2>2. ASSUME NEW n \in DefinedProperties,
               NEW key \in bundle.definitions[n].targets \ {Sentinel}
        PROVE  key \in DOMAIN TypeIds \/ key \in DeclaredMissing
    BY <1>1, <2>2 DEF PropertyTargets, Missing
  <2>. QED
    BY <2>1, <2>2 DEF TypesNamed
<1>4. \A key \in TypesNamedForGood : key \in DOMAIN TypeIds
  BY <1>1, <1>2, SlotsNamed DEF TypesNamedForGood, TypeDocuments
<1>. QED
  BY <1>3, <1>4 DEF UnknownTypes

LEMMA EntriesApartAtTheEnd ==
  ASSUME Conversion, Converted
  PROVE  /\ DOMAIN entries = {o.place : o \in EntriesOwed}
         /\ EntriesApart(EntriesOwed)
<1>1. PlacesNow = {RelationPlace(n) : n \in DefinedProperties} \cup OptionPlaces \cup IndexEntries
  BY AllMade DEF PlacesNow, Converted
<1>2. EntriesOwedNow = EntriesOwed
  BY <1>1, AllMade DEF EntriesOwedNow, EntriesOwed, OwedEntry
<1>. QED
  BY <1>2, AllMade DEF Conversion, Apart

LEMMA ConvertedWithoutCause ==
  ASSUME Conversion, Converted
  PROVE  ~CauseForRefusal
<1>1. /\ request.valid /\ Inspected /\ ~bundle.odd /\ ~NativeClash /\ ~DuplicateProperty
      /\ ~DeclarationsMerge
  BY AllMade DEF Conversion, Stages
<1>2. UnknownTypes = {}
  BY TypesKnownAtTheEnd
<1>3. ~MembersWithoutASpace
  <2>1. ~IconLosesAMember /\ \A d \in bundle.documents : ~SpacelessMember(d)
    BY AllMade DEF Conversion, LossesFollow, ErrorsRead
  <2>. QED
    BY <2>1 DEF MembersWithoutASpace, SpacelessMember
<1>4. ~OptionsDisagree
  <2>1. OwedNow = OptionsOwed
    BY AllMade DEF OwedNow, OptionsOwed
  <2>. QED
    BY <2>1, AllMade DEF Conversion, OptionsFollow, ErrorsRead, Faithful, OptionsDisagree
<1>5. ~IdsClash
  BY EntriesApartAtTheEnd DEF EntriesApart, IdsClash
<1>6. \A d \in bundle.documents : ~(d.kind = "template" /\ ~d.targeted /\ Len(d.types) < 2)
  BY AllMade DEF Conversion, TypesFollow
<1>. QED
  BY <1>1, <1>2, <1>3, <1>4, <1>5, <1>6 DEF CauseForRefusal

(***************************************************************************)
(* A bundle is refused for a reason that can be read off it, and one with  *)
(* such a reason is never converted, also when the reason was met half way *)
(* and the run went on (the resolver's err, conversionErr).                *)
(***************************************************************************)
THEOREM RefusalsHaveCauses == Spec => []RefusedForCause
<1>1. Conversion => RefusedForCause
  BY ConvertedWithoutCause DEF Conversion, Blamed, RefusedForCause
<1>. QED
  BY <1>1, ConversionStarts, ConversionKept, PTL DEF Spec

-----------------------------------------------------------------------------
(***************************************************************************)
(* The references and the counts.                                          *)
(***************************************************************************)
(* The images of finitely many, and as many where the map is one to one.   *)
LEMMA FiniteImage ==
  ASSUME NEW S, IsFiniteSet(S), NEW f, DOMAIN f = S
  PROVE  IsFiniteSet({f[x] : x \in S})
<1>. DEFINE T == {f[x] : x \in S}
            g == [x \in S |-> f[x]]
<1>1. g \in [S -> T] /\ \A t \in T : \E s \in S : g[s] = t
  OBVIOUS
<1>. HIDE DEF g, T
<1>2. g \in Surjection(S, T)
  BY <1>1 DEF Surjection
<1>3. IsFiniteSet(T)
  BY <1>2, FS_Surjection
<1>. QED
  BY <1>3 DEF T

LEMMA SameNumber ==
  ASSUME NEW S, IsFiniteSet(S), NEW f, DOMAIN f = S,
         \A x, y \in S : f[x] = f[y] => x = y
  PROVE  /\ IsFiniteSet({f[x] : x \in S})
         /\ Cardinality({f[x] : x \in S}) = Cardinality(S)
<1>. DEFINE T == {f[x] : x \in S}
            g == [x \in S |-> f[x]]
<1>1. /\ g \in [S -> T] /\ DOMAIN g = S
      /\ \A t \in T : \E s \in S : g[s] = t
      /\ \A a, b \in S : g[a] = g[b] => a = b
  OBVIOUS
<1>. HIDE DEF g, T
<1>2. g \in Bijection(S, T)
  BY <1>1 DEF Bijection, Surjection, Injection, IsInjective
<1>3. ExistsBijection(S, T)
  BY <1>2 DEF ExistsBijection
<1>4. IsFiniteSet(T) /\ Cardinality(T) = Cardinality(S)
  BY <1>3, FS_Bijection
<1>. QED
  BY <1>4 DEF T

LEMMA SumOfApart ==
  ASSUME NEW S, IsFiniteSet(S), NEW T, IsFiniteSet(T), S \cap T = {}
  PROVE  /\ IsFiniteSet(S \cup T)
         /\ Cardinality(S \cup T) = Cardinality(S) + Cardinality(T)
<1>1. IsFiniteSet(S \cup T)
      /\ Cardinality(S \cup T) = Cardinality(S) + Cardinality(T) - Cardinality(S \cap T)
  BY FS_Union
<1>2. Cardinality(S \cap T) = 0
  BY FS_EmptySet
<1>3. Cardinality(S) \in Nat /\ Cardinality(T) \in Nat
  BY FS_CardinalityType
<1>. QED
  BY <1>1, <1>2, <1>3

LEMMA Pairs ==
  ASSUME NEW S, IsFiniteSet(S), NEW a \in S, NEW b \in S, a # b
  PROVE  Cardinality(S) > 1
<1>1. IsFiniteSet({a}) /\ Cardinality({a}) = 1 /\ IsFiniteSet({b}) /\ Cardinality({b}) = 1
  BY FS_Singleton
<1>2. IsFiniteSet({a} \cup {b}) /\ Cardinality({a} \cup {b}) = 2
  BY <1>1, SumOfApart
<1>3. {a} \cup {b} \in SUBSET S
  OBVIOUS
<1>4. Cardinality({a} \cup {b}) <= Cardinality(S)
  BY <1>3, FS_Subset
<1>5. Cardinality(S) \in Nat
  BY FS_CardinalityType
<1>. QED
  BY <1>2, <1>4, <1>5

(* The validator admits one document for a type's key.                     *)
LEMMA OneDocumentPerKey ==
  ASSUME Conversion, Converted, NEW d \in TypeDocuments, NEW e \in TypeDocuments,
         d.key = e.key, d.key # NoTypeKey
  PROVE  d = e
<1>. SUFFICES ASSUME d # e PROVE FALSE
  OBVIOUS
<1>1. d \in bundle.documents /\ e \in bundle.documents /\ input.bundle \in Bundles
  BY AllMade DEF TypeDocuments
<1>2. d.path # e.path
  BY <1>1, PathsAssumption DEF bundle
<1>. DEFINE seen == [x \in bundle.documents |-> InspectedDocument(x)]
            all == {InspectedDocument(x) : x \in bundle.documents}
            twins == {x \in all : x.typeKey = d.key}
<1>3. /\ InspectedDocument(d).path = d.path /\ InspectedDocument(e).path = e.path
      /\ InspectedDocument(d).typeKey = d.key /\ InspectedDocument(e).typeKey = e.key
  BY DEF InspectedDocument
<1>4. /\ InspectedDocument(d) # InspectedDocument(e)
      /\ InspectedDocument(d) \in twins /\ InspectedDocument(e) \in twins
  BY <1>1, <1>2, <1>3
<1>5. IsFiniteSet(twins)
  <2>1. IsFiniteSet(bundle.documents)
    BY <1>1, DecodedAssumption DEF bundle
  <2>2. IsFiniteSet({seen[x] : x \in bundle.documents})
    BY <2>1, FiniteImage
  <2>3. {seen[x] : x \in bundle.documents} = all
    OBVIOUS
  <2>4. twins \in SUBSET all
    OBVIOUS
  <2>. HIDE DEF seen, all, twins
  <2>. QED
    BY <2>2, <2>3, <2>4, FS_Subset
<1>6. Cardinality(twins) > 1
  <2>. HIDE DEF twins
  <2>. QED
    BY <1>4, <1>5, Pairs
<1>7. InspectedBundle.documents = all
  BY DEF InspectedBundle
<1>8. Issue("error", "duplicate type key", d.key) \in DuplicateTypeKeys(InspectedBundle)
  <2>1. d.key \in {x.typeKey : x \in all} \ {NoTypeKey}
    BY <1>3, <1>4
  <2>. HIDE DEF all
  <2>2. Cardinality({x \in InspectedBundle.documents : x.typeKey = d.key}) > 1
    BY <1>6, <1>7
  <2>. QED
    BY <1>7, <2>1, <2>2 DEF DuplicateTypeKeys, Errors
<1>9. Issue("error", "duplicate type key", d.key) \in Refusals(Report)
  <2>1. Issue("error", "duplicate type key", d.key).severity = "error"
    BY DEF Issue
  <2>. QED
    BY <1>8, <2>1 DEF Report, Inspect, Refusals
<1>10. Inspected
  BY AllMade DEF Conversion, Stages
<1>. QED
  BY <1>9, <1>10 DEF Inspected

(* A type is answered with the id of its document ...                      *)
LEMMA CarriedTypes ==
  ASSUME Conversion, Converted, NEW e \in TypeDocuments, e.key # NoTypeKey
  PROVE  e.key \in DOMAIN TypeIds /\ TypeIds[e.key] = e.id
<1>1. e.key \in TypeKeys
  BY DEF TypeKeys
<1>2. \E x \in TypeDocuments : x.key = e.key
  OBVIOUS
<1>3. (CHOOSE x \in TypeDocuments : x.key = e.key) = e
  BY <1>2, OneDocumentPerKey
<1>4. CarriedTypeIds[e.key] = e.id
  BY <1>1, <1>3 DEF CarriedTypeIds
<1>. QED
  BY <1>1, <1>4, TypeIdsAnswer

(* ... which is the id of its entry.                                       *)
LEMMA TypesKeepTheirIds ==
  ASSUME Conversion, Converted, NEW e \in TypeDocuments, e.key # NoTypeKey
  PROVE  OutputId(e) = e.id
<1>1. OutputId(e) = UnfoldType(ReaderOptions, e.id)
  BY DEF OutputId, ImportEnvelope, TypeRefUnrebuildable, ReaderOptions, TypeDocuments
<1>2. NamesType(e.id) => e.id.name = e.key
  <2>1. EntitledId(e.kind, e.id, e.key)
    BY AllMade, DecodedAssumption DEF TypeDocuments, bundle
  <2>. QED
    BY <2>1 DEF EntitledId, NamesType
<1>. QED
  BY <1>1, <1>2, CarriedTypes DEF UnfoldType, ReaderOptions

(* A reference is rebuilt to the id that the document's envelope is.       *)
LEMMA ReferencesAgree ==
  ASSUME Conversion, Converted, NEW e \in bundle.documents
  PROVE  UnfoldRef(ReaderOptions, e.id) = OutputId(e)
<1>1. EntitledId(e.kind, e.id, e.key)
  BY AllMade, DecodedAssumption DEF bundle
<1>2. ReaderOptions.wired = TRUE
  BY DEF ReaderOptions
<1>3. /\ NamesMember(e.id) => e.kind = "participant"
      /\ NamesType(e.id) => e.kind = "type"
  BY <1>1 DEF EntitledId, NamesMember, NamesType
<1>4. ~NamesMember(e.id) => UnfoldParticipant(ReaderOptions, e.id) = e.id
  BY DEF UnfoldParticipant
<1>5. ~NamesType(e.id) => UnfoldType(ReaderOptions, e.id) = e.id
  BY DEF UnfoldType
<1>6. CASE e.kind = "participant"
  BY <1>3, <1>5, <1>6 DEF UnfoldRef, OutputId, ImportEnvelope
<1>7. CASE e.kind = "type"
  BY <1>2, <1>3, <1>4, <1>7 DEF UnfoldRef, OutputId, ImportEnvelope, TypeRefUnrebuildable
<1>8. CASE e.kind \notin {"participant", "type"}
  BY <1>3, <1>4, <1>5, <1>8 DEF UnfoldRef, OutputId, ImportEnvelope
<1>. QED
  BY <1>6, <1>7, <1>8

(* The index names what the bundle's index named, as its ids are rebuilt.  *)
LEMMA IndexNames ==
  ASSUME Conversion, Converted, NEW e \in bundle.documents
  PROVE  /\ e.id \in WidgetTargets(bundle) \cup bundle.index.autoTargets =>
              HasSidebar /\ OutputId(e) \in WidgetIds
         /\ e.id \in Opening => OutputId(e) \in StatedHome
<1>1. index = DecodedIndex /\ UnfoldRef(ReaderOptions, e.id) = OutputId(e)
  BY AllMade, ReferencesAgree
<1>2. ASSUME e.id \in WidgetTargets(bundle)
      PROVE  /\ index.widgets # <<>>
             /\ OutputId(e) \in WidgetTargets([index |-> index])
  <2>1. PICK n \in DOMAIN bundle.index.widgets : bundle.index.widgets[n].target = e.id
    BY <1>2 DEF WidgetTargets
  <2>2. n \in DOMAIN index.widgets /\ index.widgets[n].target = OutputId(e)
    BY <1>1, <2>1 DEF DecodedIndex
  <2>3. index.widgets # <<>>
    BY <2>2
  <2>4. OutputId(e) \in WidgetTargets([index |-> index])
    BY <2>2 DEF WidgetTargets
  <2>. QED
    BY <2>3, <2>4
<1>3. /\ index.homepage = Unfold(bundle.index.homepage)
      /\ index.entrypoint = Unfold(bundle.index.entrypoint)
      /\ index.autoTargets = Unfold(bundle.index.autoTargets)
  BY <1>1 DEF DecodedIndex
<1>4. ASSUME e.id \in bundle.index.autoTargets
      PROVE  OutputId(e) \in index.autoTargets
  BY <1>1, <1>3, <1>4 DEF Unfold
<1>5. ASSUME e.id \in Opening
      PROVE  OutputId(e) \in StatedHome
  <2>1. CASE bundle.index.homepage # {}
    BY <1>1, <1>3, <1>5, <2>1 DEF Opening, StatedHome, Unfold
  <2>2. CASE bundle.index.homepage = {}
    BY <1>1, <1>3, <1>5, <2>2 DEF Opening, StatedHome, Unfold
  <2>. QED
    BY <2>1, <2>2
<1>. QED
  BY <1>2, <1>4, <1>5 DEF HasSidebar, WidgetIds

LEMMA IndexEntriesHold ==
  ASSUME Conversion, Converted
  PROVE  /\ HasSidebar => DOMAIN entries[<<"objects", WidgetsId>>].refs = WidgetIds
         /\ ~request.authoring /\ StatedHome # {} =>
              DOMAIN entries[<<"objects", WorkspaceId>>].refs = StatedHome
<1>1. \A place \in DOMAIN IndexRefs : DOMAIN entries[place].refs = IndexRefs[place]
  BY AllMade DEF Conversion, EntriesFollow, Converted
<1>2. ASSUME HasSidebar
      PROVE  DOMAIN entries[<<"objects", WidgetsId>>].refs = WidgetIds
  <2>1. <<"objects", WidgetsId>> \in DOMAIN IndexRefs
    BY <1>2 DEF IndexRefs
  <2>2. IndexRefs[<<"objects", WidgetsId>>] = WidgetIds
    BY <2>1 DEF IndexRefs
  <2>. QED
    BY <1>1, <2>1, <2>2
<1>3. ASSUME ~request.authoring, StatedHome # {}
      PROVE  DOMAIN entries[<<"objects", WorkspaceId>>].refs = StatedHome
  <2>1. <<"objects", WorkspaceId>> \in DOMAIN IndexRefs
    BY <1>3 DEF IndexRefs
  <2>2. IndexRefs[<<"objects", WorkspaceId>>] = StatedHome
    BY <2>1, ArchiveAssumption DEF IndexRefs
  <2>. QED
    BY <1>1, <2>1, <2>2
<1>. QED
  BY <1>2, <1>3

(***************************************************************************)
(* A reference to a document, a type's id, a property's target, a widget   *)
(* and the homepage are each rebuilt to the id of that document's entry.   *)
(***************************************************************************)
THEOREM ReferencesArrive == Spec => []ReferencesLand
<1>1. ASSUME Conversion, Converted, NEW d \in bundle.documents, NEW e \in bundle.documents
      PROVE  /\ e.id \in d.refs => entries[Place(d)].refs[e.id] = OutputId(e)
             /\ e.kind = "type" /\ e.key # NoTypeKey =>
                  /\ TypeId(e.key) \in d.refs /\ e.key \in Foldable =>
                       entries[Place(d)].refs[TypeId(e.key)] = OutputId(e)
                  /\ \A n \in {m \in DefinedProperties : e.key \in PropertyTargets(m)} :
                       entries[RelationPlace(n)].refs[e.key] = OutputId(e)
             /\ e.id \in WidgetTargets(bundle) \cup bundle.index.autoTargets =>
                  OutputId(e) \in DOMAIN entries[<<"objects", WidgetsId>>].refs
             /\ e.id \in Opening /\ ~request.authoring =>
                  OutputId(e) \in DOMAIN entries[<<"objects", WorkspaceId>>].refs
  <2>1. entries[Place(d)].refs = [ref \in d.refs |-> UnfoldRef(ReaderOptions, ref)]
    BY <1>1, AllMade DEF Conversion, EntriesFollow
  <2>2. e.id \in d.refs => entries[Place(d)].refs[e.id] = OutputId(e)
    BY <1>1, <2>1, ReferencesAgree
  <2>3. ASSUME e.kind = "type", e.key # NoTypeKey
        PROVE  e.key \in DOMAIN TypeIds /\ TypeIds[e.key] = OutputId(e)
    BY <1>1, <2>3, CarriedTypes, TypesKeepTheirIds DEF TypeDocuments
  <2>4. ASSUME e.kind = "type", e.key # NoTypeKey, TypeId(e.key) \in d.refs, e.key \in Foldable
        PROVE  entries[Place(d)].refs[TypeId(e.key)] = OutputId(e)
    <3>1. TypeId(e.key).form = "type" /\ TypeId(e.key).name = e.key
      BY DEF TypeId, Id
    <3>2. UnfoldParticipant(ReaderOptions, TypeId(e.key)) = TypeId(e.key)
      BY <3>1 DEF UnfoldParticipant, NamesMember
    <3>3. UnfoldType(ReaderOptions, TypeId(e.key)) = TypeIds[e.key]
      BY <2>3, <2>4, <3>1 DEF UnfoldType, NamesType, ReaderOptions
    <3>. QED
      BY <2>1, <2>3, <2>4, <3>2, <3>3 DEF UnfoldRef
  <2>5. ASSUME e.kind = "type", e.key # NoTypeKey,
               NEW n \in DefinedProperties, e.key \in PropertyTargets(n)
        PROVE  entries[RelationPlace(n)].refs[e.key] = OutputId(e)
    <3>1. entries[RelationPlace(n)].refs = [key \in PropertyTargets(n) |-> TypeIds[key]]
      BY <1>1, AllMade DEF Conversion, EntriesFollow
    <3>. QED
      BY <2>3, <2>5, <3>1
  <2>6. e.id \in WidgetTargets(bundle) \cup bundle.index.autoTargets =>
          OutputId(e) \in DOMAIN entries[<<"objects", WidgetsId>>].refs
    BY <1>1, IndexNames, IndexEntriesHold
  <2>7. e.id \in Opening /\ ~request.authoring =>
          OutputId(e) \in DOMAIN entries[<<"objects", WorkspaceId>>].refs
    <3>1. e.id \in Opening => OutputId(e) \in StatedHome
      BY <1>1, IndexNames
    <3>. QED
      BY <1>1, <3>1, IndexEntriesHold
  <2>. QED
    BY <2>2, <2>4, <2>5, <2>6, <2>7
<1>2. Conversion => ReferencesLand
  BY <1>1 DEF ReferencesLand
<1>. QED
  BY <1>2, ConversionStarts, ConversionKept, PTL DEF Spec

-----------------------------------------------------------------------------
(* What an archive has to hold is finite.                                  *)
LEMMA DefinedAreFinite ==
  ASSUME input.bundle \in Bundles
  PROVE  IsFiniteSet(DefinedProperties)
<1>1. IsList(bundle.definitions)
  BY DecodedAssumption DEF bundle
<1>2. DOMAIN bundle.definitions = 1..Len(bundle.definitions) /\ Len(bundle.definitions) \in Nat
  BY <1>1 DEF IsList
<1>3. IsFiniteSet(DOMAIN bundle.definitions)
  <2>1. PICK n \in Nat : DOMAIN bundle.definitions = 1..n
    BY <1>2
  <2>2. IsFiniteSet(1..n)
    BY FS_Interval
  <2>. QED
    BY <2>1, <2>2
<1>4. DefinedProperties \in SUBSET DOMAIN bundle.definitions
  BY DEF DefinedProperties
<1>. QED
  BY <1>3, <1>4, FS_Subset

LEMMA RelationsCounted ==
  ASSUME Conversion, Converted
  PROVE  LET places == {RelationPlace(n) : n \in DefinedProperties}
         IN  IsFiniteSet(places) /\ Cardinality(places) = Cardinality(DefinedProperties)
<1>. DEFINE place == [n \in DefinedProperties |-> RelationPlace(n)]
<1>1. IsFiniteSet(DefinedProperties)
  BY AllMade, DefinedAreFinite
<1>2. \A n, m \in DefinedProperties : place[n] = place[m] => n = m
  BY AllMade, RelationsApart DEF Conversion
<1>3. /\ IsFiniteSet({place[n] : n \in DefinedProperties})
      /\ Cardinality({place[n] : n \in DefinedProperties}) = Cardinality(DefinedProperties)
  <2>1. DOMAIN place = DefinedProperties
    OBVIOUS
  <2>. HIDE DEF place
  <2>. QED
    BY <1>1, <1>2, <2>1, SameNumber
<1>4. {place[n] : n \in DefinedProperties} = {RelationPlace(n) : n \in DefinedProperties}
  OBVIOUS
<1>. QED
  BY <1>3, <1>4

LEMMA OptionsFinite ==
  ASSUME Conversion, Converted
  PROVE  IsFiniteSet(OptionPlaces)
<1>. DEFINE place == [o \in resolver.options |-> OptionPlace(o)]
<1>1. IsFiniteSet(resolver.options)
  BY AllMade DEF Conversion, OptionsFollow
<1>2. IsFiniteSet({place[o] : o \in resolver.options})
  BY <1>1, FiniteImage
<1>3. {place[o] : o \in resolver.options} = OptionPlaces
  BY DEF OptionPlaces
<1>. QED
  BY <1>2, <1>3

LEMMA IndexEntriesFinite == IsFiniteSet(IndexEntries)
<1>1. \A x : IsFiniteSet({x})
  BY FS_Singleton
<1>2. IsFiniteSet({})
  BY FS_EmptySet
<1>3. IsFiniteSet(IF HasSidebar THEN {<<"objects", WidgetsId>>} ELSE {})
  BY <1>1, <1>2
<1>4. IsFiniteSet(IF request.authoring THEN {} ELSE {<<"objects", WorkspaceId>>})
  BY <1>1, <1>2
<1>. QED
  BY <1>3, <1>4, FS_Union DEF IndexEntries

LEMMA GeneratedCounted ==
  ASSUME Conversion, Converted
  PROVE  LET places == {RelationPlace(n) : n \in DefinedProperties}
                         \cup OptionPlaces \cup IndexEntries
         IN  /\ IsFiniteSet(places)
             /\ Cardinality(places) =
                  Cardinality(DefinedProperties) + Cardinality(OptionPlaces)
                    + Cardinality(IndexEntries)
<1>. DEFINE relations == {RelationPlace(n) : n \in DefinedProperties}
<1>1. IsFiniteSet(relations) /\ Cardinality(relations) = Cardinality(DefinedProperties)
  BY RelationsCounted
<1>2. relations \cap OptionPlaces = {} /\ (relations \cup OptionPlaces) \cap IndexEntries = {}
  BY Directories
<1>. HIDE DEF relations
<1>3. /\ IsFiniteSet(relations \cup OptionPlaces)
      /\ Cardinality(relations \cup OptionPlaces)
           = Cardinality(relations) + Cardinality(OptionPlaces)
  BY <1>1, <1>2, OptionsFinite, SumOfApart
<1>4. /\ IsFiniteSet((relations \cup OptionPlaces) \cup IndexEntries)
      /\ Cardinality((relations \cup OptionPlaces) \cup IndexEntries)
           = Cardinality(relations \cup OptionPlaces) + Cardinality(IndexEntries)
  BY <1>2, <1>3, IndexEntriesFinite, SumOfApart
<1>. QED
  BY <1>1, <1>3, <1>4 DEF relations

LEMMA OwedCounted ==
  ASSUME Conversion, Converted
  PROVE  /\ IsFiniteSet(EntriesOwed)
         /\ Cardinality(EntriesOwed) =
              Cardinality(bundle.documents) + Cardinality(DefinedProperties)
                + Cardinality(OptionPlaces) + Cardinality(IndexEntries)
<1>. DEFINE places == {RelationPlace(n) : n \in DefinedProperties}
                        \cup OptionPlaces \cup IndexEntries
            ofDocument == [d \in bundle.documents |-> OwedEntry({d}, Place(d))]
            ofPlace == [place \in places |-> OwedEntry({}, place)]
            documents == {ofDocument[d] : d \in bundle.documents}
            others == {ofPlace[place] : place \in places}
<1>1. \A from, place : OwedEntry(from, place).from = from /\ OwedEntry(from, place).place = place
  BY DEF OwedEntry
<1>2. IsFiniteSet(documents) /\ Cardinality(documents) = Cardinality(bundle.documents)
  <2>1. IsFiniteSet(bundle.documents)
    BY AllMade, DecodedAssumption DEF bundle
  <2>2. \A d, e \in bundle.documents : ofDocument[d] = ofDocument[e] => d = e
    <3>. SUFFICES ASSUME NEW d \in bundle.documents, NEW e \in bundle.documents,
                         OwedEntry({d}, Place(d)) = OwedEntry({e}, Place(e))
                  PROVE  d = e
      OBVIOUS
    <3>1. {d} = {e}
      BY <1>1
    <3>. QED
      BY <3>1
  <2>3. DOMAIN ofDocument = bundle.documents
    OBVIOUS
  <2>. HIDE DEF ofDocument
  <2>. QED
    BY <2>1, <2>2, <2>3, SameNumber
<1>3. IsFiniteSet(places)
      /\ Cardinality(places) = Cardinality(DefinedProperties) + Cardinality(OptionPlaces)
                                 + Cardinality(IndexEntries)
  BY GeneratedCounted
<1>4. IsFiniteSet(others) /\ Cardinality(others) = Cardinality(places)
  <2>1. \A p, q \in places : ofPlace[p] = ofPlace[q] => p = q
    <3>. HIDE DEF places
    <3>. QED
      BY <1>1
  <2>2. DOMAIN ofPlace = places
    OBVIOUS
  <2>. HIDE DEF ofPlace, places
  <2>. QED
    BY <1>3, <2>1, <2>2, SameNumber
<1>5. documents \cap others = {}
  <2>1. \A o \in documents : o.from # {}
    BY <1>1
  <2>2. \A o \in others : o.from = {}
    <3>. HIDE DEF places
    <3>. QED
      BY <1>1
  <2>. HIDE DEF documents, others
  <2>. QED
    BY <2>1, <2>2
<1>6. EntriesOwed = documents \cup others
  <2>1. documents = {[from |-> {d}, place |-> Place(d)] : d \in bundle.documents}
    BY DEF OwedEntry
  <2>2. others = {[from |-> {}, place |-> place] : place \in places}
    <3>. HIDE DEF places
    <3>. QED
      BY DEF OwedEntry
  <2>. HIDE DEF documents, others
  <2>. QED
    BY <2>1, <2>2 DEF EntriesOwed
<1>. HIDE DEF documents, others, places
<1>7. /\ IsFiniteSet(documents \cup others)
      /\ Cardinality(documents \cup others) = Cardinality(documents) + Cardinality(others)
  BY <1>2, <1>4, <1>5, SumOfApart
<1>8. /\ Cardinality(bundle.documents) \in Nat /\ Cardinality(DefinedProperties) \in Nat
      /\ Cardinality(OptionPlaces) \in Nat /\ Cardinality(IndexEntries) \in Nat
  BY AllMade, DecodedAssumption, DefinedAreFinite, OptionsFinite, IndexEntriesFinite,
     FS_CardinalityType
     DEF bundle
<1>. QED
  BY <1>2, <1>3, <1>4, <1>6, <1>7, <1>8

(***************************************************************************)
(* Every document and every property has its entry, and the archive has a  *)
(* file of its own for each of them, for each option and for the index's   *)
(* entries, on a filesystem that does not mind the case of a name either.  *)
(***************************************************************************)
THEOREM NothingGetsLost == Spec => []NothingIsLost
<1>1. ASSUME Conversion, Converted PROVE NothingIsLost
  <2>1. /\ DOMAIN entries = {o.place : o \in EntriesOwed}
        /\ EntriesApart(EntriesOwed)
    BY <1>1, EntriesApartAtTheEnd
  <2>2. \A d \in bundle.documents : Place(d) \in DOMAIN entries
    BY <1>1, AllMade DEF Conversion, EntriesFollow
  <2>3. \A n \in DefinedProperties : RelationPlace(n) \in DOMAIN entries
    BY <1>1, AllMade DEF Conversion, EntriesFollow
  <2>. DEFINE file == [o \in EntriesOwed |-> <<o.place[1], LowerCase[o.place[2]]>>]
  <2>4. \A o1, o2 \in EntriesOwed : file[o1] = file[o2] => o1 = o2
    <3>. SUFFICES ASSUME NEW o1 \in EntriesOwed, NEW o2 \in EntriesOwed, file[o1] = file[o2],
                         o1 # o2
                  PROVE  FALSE
      OBVIOUS
    <3>1. /\ o1.place[1] = o2.place[1]
          /\ LowerCase[o1.place[2]] = LowerCase[o2.place[2]]
      OBVIOUS
    <3>. QED
      BY <2>1, <3>1 DEF EntriesApart, Clash
  <2>5. Cardinality({file[o] : o \in EntriesOwed}) = Cardinality(EntriesOwed)
    <3>1. DOMAIN file = EntriesOwed
      OBVIOUS
    <3>. HIDE DEF file
    <3>. QED
      BY <1>1, <2>4, <3>1, OwedCounted, SameNumber
  <2>6. {<<place[1], LowerCase[place[2]]>> : place \in DOMAIN entries}
          = {file[o] : o \in EntriesOwed}
    BY <2>1
  <2>. QED
    BY <1>1, <2>2, <2>3, <2>5, <2>6, OwedCounted DEF NothingIsLost
<1>2. Conversion => NothingIsLost
  BY <1>1 DEF NothingIsLost
<1>. QED
  BY <1>2, ConversionStarts, ConversionKept, PTL DEF Spec

(***************************************************************************)
(* A loss is told: the declared ones in three lists that have nothing in   *)
(* common and leave nothing out, a type replaced and bytes not found as    *)
(* warnings of their document.                                             *)
(***************************************************************************)
THEOREM LossesArrive == Spec => []LossesAreTold
<1>1. ASSUME Conversion, Converted PROVE LossesAreTold
  <2>. DEFINE stated == bundle.index.unresolved
              u == index.unresolved
  <2>1. /\ u.targets = Unfold(stated.targets) /\ u.deleted = Unfold(stated.deleted)
        /\ u.omitted = Unfold(stated.omitted)
    BY <1>1, AllMade DEF DecodedIndex
  <2>2. /\ IsFiniteSet(stated.targets)
        /\ stated.deleted \cup stated.omitted \subseteq stated.targets
    BY <1>1, AllMade, DecodedAssumption DEF bundle
  <2>3. u.deleted \cup u.omitted \subseteq u.targets
    BY <2>1, <2>2 DEF Unfold
  <2>4. u.deleted \cap u.omitted = {}
    BY <1>1, AllMade DEF Conversion, Stages, DeclarationsMerge
  <2>5. IsFiniteSet(u.targets)
    <3>. DEFINE target == [id \in stated.targets |-> UnfoldRef(ReaderOptions, id)]
    <3>1. IsFiniteSet({target[id] : id \in stated.targets})
      BY <2>2, FiniteImage
    <3>2. {target[id] : id \in stated.targets} = u.targets
      BY <2>1 DEF Unfold
    <3>. QED
      BY <3>1, <3>2
  <2>. HIDE DEF u
  <2>. DEFINE absent == u.targets \ (u.deleted \cup u.omitted)
  <2>6. IsFiniteSet(u.deleted) /\ IsFiniteSet(u.omitted) /\ IsFiniteSet(absent)
    BY <2>3, <2>5, FS_Subset
  <2>7. u.targets = (u.deleted \cup u.omitted) \cup absent
    BY <2>3
  <2>8. /\ IsFiniteSet(u.deleted \cup u.omitted)
        /\ Cardinality(u.deleted \cup u.omitted) = Cardinality(u.deleted) + Cardinality(u.omitted)
    BY <2>4, <2>6, SumOfApart
  <2>9. Cardinality(u.targets) = Cardinality(u.deleted \cup u.omitted) + Cardinality(absent)
    <3>1. (u.deleted \cup u.omitted) \cap absent = {}
      OBVIOUS
    <3>. HIDE DEF absent
    <3>. QED
      BY <2>6, <2>7, <2>8, <3>1, SumOfApart
  <2>10. /\ UnresolvedTargets.deleted = u.deleted /\ UnresolvedTargets.omitted = u.omitted
         /\ UnresolvedTargets.absent = absent
    BY DEF UnresolvedTargets, u
  <2>11. \A d \in bundle.documents :
           /\ \A key \in (Range(d.types) \cap DeclaredMissing) \ TypeKeys :
                d.kind # "type" => <<"retyped", d.id, key>> \in told
           /\ (d.kind = "file" /\ OutputId(d) \notin files) =>
                <<"no bytes", d.id, d.remote>> \in told
    BY <1>1, AllMade DEF Conversion, LossesFollow, Missing
  <2>. QED
    BY <2>7, <2>8, <2>9, <2>10, <2>11 DEF LossesAreTold, u
<1>2. Conversion => LossesAreTold
  BY <1>1 DEF LossesAreTold
<1>. QED
  BY <1>2, ConversionStarts, ConversionKept, PTL DEF Spec

(***************************************************************************)
(* Every membership of an object of the archive names a type it serves:    *)
(* one of its own under the native key its document was given, a shipped   *)
(* type, or a content id (completeBundleSnapshot, normalizeMissingTypes).  *)
(***************************************************************************)
THEOREM MembershipsCorrect == Spec => []MembershipsAreServed
<1>1. ASSUME Conversion, Converted PROVE KnownKeys \subseteq ServedKeys
  <2>1. ASSUME NEW key \in TypeKeys
        PROVE  Native(key) \in ServedKeys
    <3>1. PICK d \in bundle.documents : d.kind = "type" /\ d.key = key
      BY <2>1 DEF TypeKeys, TypeDocuments
    <3>2. Place(d) \in DOMAIN entries /\ entries[Place(d)].key = Native(key)
      BY <1>1, <3>1, AllMade DEF Conversion, EntriesFollow
    <3>3. Place(d)[1] = "types"
      BY <3>1 DEF Place, Directory
    <3>. QED
      BY <3>2, <3>3 DEF ServedKeys
  <2>2. ASSUME NEW key \in DOMAIN TypeIds, key \notin TypeKeys
        PROVE  Native(key) \in ServedKeys
    <3>1. key \in ShippedTypes \cup DOMAIN KeptContentIds
      BY <2>2, TypeIdsAnswer
    <3>2. Native(key) = key
      BY <2>2 DEF Native, PlannedTypeKeys
    <3>. QED
      BY <3>1, <3>2 DEF ServedKeys
  <2>. QED
    BY <2>1, <2>2 DEF KnownKeys
<1>2. Conversion => MembershipsAreServed
  BY <1>1, AllMade DEF Conversion, EntriesFollow, MembershipsAreServed
<1>. QED
  BY <1>2, ConversionStarts, ConversionKept, PTL DEF Spec
=============================================================================
