------------------------------- MODULE MCCoreKeys -------------------------------
(***************************************************************************)
(* Cores as clients may send them, built from a few choices each: which    *)
(* core it is, and how it is written.  One material with a field of every  *)
(* class below it, and one geometry, stand for the data the keys carry     *)
(* along.                                                                  *)
(***************************************************************************)
EXTENDS CoreKeys

Writings == [
    kind : {<<"ep", 1>>, <<"u", 1>>, <<"u", 2>>},   \* family and subtype
    size : {1, 2},                              \* of dimension A
    sizeAs : {"number", "text", "tolerance"},
    foreign : BOOLEAN,                          \* a dimension of other families
    reversed : BOOLEAN,                         \* dimension B before A
    subtype : {"missing", "number", "text"},    \* 1 is meant if it is missing
    material : {"name", "short", "long"},       \* one material, more or less of it
    dress : {"plain", "unknown", "nulls"}]      \* members that are no field, and nulls

Sent == {c \in Writings : c.subtype = "missing" => c.kind[2] = 1}

One == Num(1)

Fields(names) == Obj([i \in DOMAIN names |-> <<names[i], One>>])

Size(c) ==
    CASE c.sizeAs = "number" -> Num(c.size)
      [] c.sizeAs = "text" -> Str(Numerals[c.size])
      [] c.sizeAs = "tolerance" -> Obj(<<<<"nominal", Num(c.size)>>>>)

Dimensions(c) ==
    LET a == <<"A", Size(c)>>
        b == <<"B", One>>
    IN  Obj((IF c.reversed THEN <<b, a>> ELSE <<a, b>>)
            \o (IF c.foreign THEN <<<<"Z", One>>>> ELSE <<>>))

Dressed(c, members, optional) ==
    Obj(CASE c.dress = "plain" -> members
          [] c.dress = "unknown" -> <<<<"unknown", One>>>> \o members
          [] c.dress = "nulls" -> members \o <<<<optional, Null>>>>)

Shape(c) ==
    Dressed(c, <<<<"family", Str(c.kind[1])>>, <<"type", Str("standard")>>,
                 <<"dimensions", Dimensions(c)>>>>
               \o (CASE c.subtype = "missing" -> <<>>
                     [] c.subtype = "number" -> <<<<"familySubtype", Num(c.kind[2])>>>>
                     [] c.subtype = "text" -> <<<<"familySubtype", Str(Numerals[c.kind[2]])>>>>),
            "aliases")

Signal ==
    Obj(<<<<"harmonics", Obj(<<<<"amplitudes", Arr(<<One>>)>>, <<"frequencies", Arr(<<One>>)>>>>)>>,
          <<"processed", Obj(<<<<"label", Str("Sinusoidal")>>, <<"offset", One>>>>)>>,
          <<"waveform", Obj(<<<<"data", Arr(<<One>>)>>>>)>>>>)

LossesPoint ==
    Obj(<<<<"magneticFluxDensity",
            Obj(<<<<"frequency", One>>, <<"magneticFluxDensity", Signal>>>>)>>,
          <<"origin", Str("manufacturer")>>, <<"temperature", One>>, <<"value", One>>>>)

Losses(method, name, data) ==
    Obj(<<<<"method", Str(method)>>, <<name, data>>>>)

Modifier ==
    Obj(<<<<"frequencyFactor", Fields(<<"a", "b", "c", "d">>)>>,
          <<"magneticFieldDcBiasFactor", Fields(<<"a", "b", "c">>)>>,
          <<"method", Str("magnetics")>>,
          <<"temperatureFactor", Fields(<<"a">>)>>,
          <<"magneticFluxDensityFactor", Fields(<<"a", "b", "c", "d", "e", "f">>)>>>>)

Permeability ==
    Obj(<<<<"value", One>>, <<"modifiers", Obj(<<<<"default", Modifier>>>>)>>>>)

Saturation == Fields(<<"magneticField", "magneticFluxDensity", "temperature">>)

ShortMaterial ==
    <<<<"manufacturerInfo", Obj(<<<<"name", Str("TDK")>>, <<"status", Str("production")>>>>)>>,
      <<"material", Str("ferrite")>>, <<"name", Str("N87")>>,
      <<"permeability", Obj(<<<<"initial", Arr(<<Permeability>>)>>>>)>>,
      <<"resistivity", Arr(<<Fields(<<"value">>)>>)>>,
      <<"saturation", Arr(<<Saturation>>)>>,
      <<"type", Str("commercial")>>,
      <<"volumetricLosses", Obj(<<<<"default", Arr(<<
          Losses("steinmetz", "ranges", Arr(<<Fields(<<"alpha", "beta", "k">>)>>)),
          Losses("roshen", "coefficients", Fields(<<"excessLossesCoefficient",
              "resistivityFrequencyCoefficient", "resistivityMagneticFluxDensityCoefficient",
              "resistivityOffset", "resistivityTemperatureCoefficient">>)),
          Losses("lossFactor", "factors", Arr(<<Fields(<<"value">>)>>)),
          Arr(<<LossesPoint>>)>>)>>>>)>>>>

LongMaterial ==
    ShortMaterial \o
    <<<<"materialComposition", Str("MnZn")>>,
      <<"heatCapacity", Obj(<<<<"nominal", One>>, <<"excludeMaximum", Bool(TRUE)>>>>)>>>>

Material(c) ==
    CASE c.material = "name" -> Str("N87")
      [] c.material = "short" -> Obj(ShortMaterial)
      [] c.material = "long" -> Obj(LongMaterial)

Column ==
    Obj(Fields(<<"area", "depth", "height", "width">>).object
        \o <<<<"coordinates", Arr(<<One>>)>>, <<"shape", Str("round")>>,
             <<"type", Str("central")>>>>)

Geometry ==
    <<<<"geometricalDescription", Arr(<<
        Obj(<<<<"coordinates", Arr(<<One>>)>>, <<"type", Str("half set")>>,
              <<"machining", Arr(<<Obj(<<<<"coordinates", Arr(<<One>>)>>,
                                         <<"length", One>>>>)>>)>>,
              <<"insulationMaterial", Obj(<<
                  <<"dielectricStrength", Arr(<<Fields(<<"value">>)>>)>>,
                  <<"name", Str("Kapton")>>>>)>>>>)>>)>>,
      <<"processedDescription", Obj(
          Fields(<<"depth", "height", "width">>).object
          \o <<<<"columns", Arr(<<Column>>)>>,
               <<"effectiveParameters", Fields(<<"effectiveArea", "effectiveLength",
                                                 "effectiveVolume", "minimumArea">>)>>,
               <<"windingWindows", Arr(<<Obj(<<
                   <<"sectionsAlignment", Str("spread")>>,
                   <<"sectionsOrientation", Str("contiguous")>>,
                   <<"shape", Str("round")>>>>)>>)>>>>)>>>>

Core(c) ==
    Dressed(c, <<<<"functionalDescription",
                   Dressed(c, <<<<"gapping", Arr(<<Obj(<<<<"length", One>>,
                                                         <<"type", Str("additive")>>>>)>>)>>,
                                <<"material", Material(c)>>, <<"shape", Shape(c)>>,
                                <<"type", Str("two-piece set")>>>>,
                           "coating")>>>>
               \o Geometry,
            "distributorsInfo")

--------------------------------------------------------------------------------

\* Which core was sent: its family, its subtype and its size, whatever the order
\* of its dimensions, a tolerance around the size, or a subtype left out.
CoreOf(c) == <<c.kind, c.size>>

\* The simplest way to write it, as far as a row does not depend on the way: numbers
\* for numerals, no members that are no field, and none that are null.
Plain(c) ==
    [c EXCEPT !.dress = "plain",
              !.sizeAs = IF @ = "text" THEN "number" ELSE @,
              !.subtype = IF @ = "text" THEN "number" ELSE @]

\* "Make sure no unwanted dimension gets in", and a material is its name.
PlainForModel(c) == [Plain(c) EXCEPT !.foreign = FALSE, !.material = "name"]

Rows ==
    {<<ModelKey(Core(c)), "core", CoreOf(c)>> : c \in Sent}
        \union {<<GappingKey(Core(c)), "core", CoreOf(c)>> : c \in Sent}
        \union {<<DrawingKey(Shape(c)), "shape", CoreOf(c)>> : c \in Sent}

\* A row of the plot cache is of one core, or of one shape, whichever of the tasks
\* of plotter.py made it and however the requests were written; and no second row is
\* made because of a numeral, a field that is unknown or null, and for a model also
\* a dimension of another family or a material sent whole.  Other ways to write one
\* core may make rows of their own: the order of the dimensions, a tolerance, a
\* subtype left out.
KeysTellCores ==
    /\ \A row \in Rows : row[1] # Refused
    /\ Cardinality({row[1] : row \in Rows}) = Cardinality(Rows)
    /\ \A c \in Sent :
          /\ ModelKey(Core(c)) = ModelKey(Core(PlainForModel(c)))
          /\ GappingKey(Core(c)) = GappingKey(Core(Plain(c)))
          /\ DrawingKey(Shape(c)) = DrawingKey(Shape(Plain(c)))
================================================================================
