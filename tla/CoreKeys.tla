-------------------------------- MODULE CoreKeys --------------------------------
(***************************************************************************)
(* How the tasks of app/backend/plotter.py turn the JSON a client sent     *)
(* into the key of the plot cache: the JSON is read by the data classes,   *)
(* written back by .dict(), cleaned for a 3D model, and hashed as text.    *)
(*                                                                         *)
(* A JSON value is a record whose field says its kind; the members of an   *)
(* object are a sequence, as Python keeps their order.  A key is the       *)
(* object that is hashed, and Refused where the task raises before.        *)
(***************************************************************************)
EXTENDS Naturals, Sequences, SequencesExt, TLC, MagneticModels

Str(s) == [text |-> s]

Num(n) == [number |-> n]

Bool(b) == [boolean |-> b]

Arr(items) == [list |-> items]

Obj(members) == [object |-> members]

Null == [null |-> TRUE]

Refused == [refused |-> TRUE]

Is(kind, x) == kind \in DOMAIN x

\* Whole numbers as Python writes and reads them.
Numerals == [n \in 0..9 |-> ToString(n)]

IsNumeral(s) == \E n \in DOMAIN Numerals : Numerals[n] = s

ValueOf(s) == CHOOSE n \in DOMAIN Numerals : Numerals[n] = s

Names(x) == IF Is("object", x) THEN {x.object[i][1] : i \in DOMAIN x.object} ELSE {}

\* A member of an object, null if it is missing.
Member(x, name) ==
    IF name \in Names(x)
    THEN x.object[SelectInSeq(x.object, LAMBDA m : m[1] = name)][2]
    ELSE Null

\* The object with another value for a member it has.
With(object, name, value) ==
    Obj([i \in DOMAIN object.object |->
            IF object.object[i][1] = name THEN <<name, value>> ELSE object.object[i]])

--------------------------------------------------------------------------------
(* The data classes read JSON *)

AsNumber(x) ==
    IF Is("number", x) THEN x
    ELSE IF Is("boolean", x) THEN Num(IF x.boolean THEN 1 ELSE 0)
    ELSE IF Is("text", x) /\ IsNumeral(x.text) THEN Num(ValueOf(x.text))
    ELSE Refused

AsBoolean(x) ==
    IF Is("boolean", x) THEN x
    ELSE IF Is("number", x) /\ x.number \in {0, 1} THEN Bool(x.number = 1)
    ELSE IF Is("text", x) /\ x.text \in {"0", "off", "f", "false", "n", "no"} THEN Bool(FALSE)
    ELSE IF Is("text", x) /\ x.text \in {"1", "on", "t", "true", "y", "yes"} THEN Bool(TRUE)
    ELSE Refused

\* A list or an object is refused with any of its items.
Whole(value, items) ==
    IF \E i \in DOMAIN items : items[i] = Refused THEN Refused ELSE value

\* Fields come in the order of the class, missing ones as null, and members that
\* are not fields are dropped.
RECURSIVE Read(_, _)
Read(type, x) ==
    CASE type.reads \in {"number", "integer"} -> AsNumber(x)
      [] type.reads = "boolean" -> AsBoolean(x)
      [] type.reads = "text" -> IF Is("text", x) THEN x ELSE Refused
      [] type.reads = "enum" ->
            IF Is("text", x) /\ x.text \in type.of THEN x ELSE Refused
      [] type.reads = "list" ->
            IF ~Is("list", x) THEN Refused
            ELSE LET items == [i \in DOMAIN x.list |-> Read(type.of, x.list[i])]
                 IN  Whole(Arr(items), items)
      [] type.reads = "map" ->
            IF ~Is("object", x) THEN Refused
            ELSE LET items == [i \in DOMAIN x.object |-> Read(type.of, x.object[i][2])]
                 IN  Whole(Obj([i \in DOMAIN items |-> <<x.object[i][1], items[i]>>]), items)
      [] type.reads = "either" ->
            LET readings == [i \in DOMAIN type.of |-> Read(type.of[i], x)]
                first == SelectInSeq(readings, LAMBDA r : r # Refused)
            IN  IF first = 0 THEN Refused ELSE readings[first]
      [] type.reads = "class" ->
            IF ~Is("object", x) THEN Refused
            ELSE LET Item(field) ==
                         LET value == Member(x, field.name) IN
                         IF field.optional /\ value = Null THEN Null
                         ELSE Read(field.type, value)
                     items == [i \in DOMAIN type.of |-> Item(type.of[i])]
                 IN  Whole(Obj([i \in DOMAIN items |-> <<type.of[i].name, items[i]>>]), items)

--------------------------------------------------------------------------------
(* The tasks *)

\* Python's str() of a JSON value.
Written(x) ==
    IF Is("text", x) THEN x
    ELSE IF Is("number", x) /\ x.number \in DOMAIN Numerals THEN Str(Numerals[x.number])
    ELSE IF Is("boolean", x) THEN Str(IF x.boolean THEN "True" ELSE "False")
    ELSE IF x = Null THEN Str("None")
    ELSE Str("text of a container")

\* Mutant: the subtype is taken as it was sent.
SubtypeAsText_AsSent(shape) == shape

SubtypeAsText(shape) ==
    With(shape, "familySubtype", Written(Member(shape, "familySubtype")))

ShapeOf(core) == Member(Member(core, "functionalDescription"), "shape")

WithFunction(core, name, value) ==
    With(core, "functionalDescription",
         With(Member(core, "functionalDescription"), name, value))

\* A shape that is only a name is left to the classes.
ReadCore(core) ==
    Read(MagneticCore,
         IF Is("object", ShapeOf(core))
         THEN WithFunction(core, "shape", SubtypeAsText(ShapeOf(core)))
         ELSE core)

\* get_families of the builder, two families of it.
Families ==
    [ep |-> 1 :> {"A", "B"}, u |-> (1 :> {"A", "B"}) @@ (2 :> {"A", "B", "H"})]

\* int() of the subtype, 1 if there is none.
SubtypeOf(shape) ==
    LET subtype == Member(shape, "familySubtype") IN
    IF subtype = Null THEN 1
    ELSE IF IsNumeral(subtype.text) THEN ValueOf(subtype.text)
    ELSE -1

\* Mutant: dimensions the family does not have are kept.
CleanDimensions_Kept(core) == core

\* Mutant: no dimension is kept.
CleanDimensions_Emptied(core) ==
    WithFunction(core, "shape", With(ShapeOf(core), "dimensions", Obj(<<>>)))

\* For a core the classes read: clean_dimensions.
CleanDimensions(core) ==
    LET shape == ShapeOf(core)
        dimensions == Member(shape, "dimensions")
        family == Member(shape, "family").text
        own == Families[family][SubtypeOf(shape)]
    IN  IF ~Is("object", shape) \/ dimensions = Null THEN Refused
        ELSE IF family \notin DOMAIN Families THEN Refused
        ELSE IF SubtypeOf(shape) \notin DOMAIN Families[family] THEN Refused
        ELSE WithFunction(core, "shape", With(shape, "dimensions",
                Obj(SelectSeq(dimensions.object, LAMBDA d : d[1] \in own))))

\* The material is its name in the key, however much of it was sent.
NameMaterial(core) ==
    LET material == Member(Member(core, "functionalDescription"), "material") IN
    IF Is("text", material) THEN core
    ELSE WithFunction(core, "material", Member(material, "name"))

ModelKey(core) ==
    LET read == ReadCore(core)
        clean == CleanDimensions(read)
    IN  IF read = Refused \/ clean = Refused THEN Refused
        ELSE <<"core", NameMaterial(clean)>>

GappingKey(core) ==
    LET read == ReadCore(core) IN
    IF read = Refused THEN Refused ELSE <<"core", read>>

DrawingKey(shape) ==
    LET read == Read(CoreShape, IF Is("object", shape) THEN SubtypeAsText(shape) ELSE shape) IN
    IF read = Refused THEN Refused ELSE <<"coreShape", read>>
================================================================================
