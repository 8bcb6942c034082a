----------------------------- MODULE MagneticModels -----------------------------
(***************************************************************************)
(* The data classes of app/backend/mas_models.py that a magnetic core is   *)
(* made of, with the types of their fields in the order they are declared. *)
(* All of them are pydantic models whose enumerations are kept as values.  *)
(* The generated from_dict and to_dict, which nothing calls, are left out. *)
(***************************************************************************)
EXTENDS Sequences

Number == [reads |-> "number"]

Integer == [reads |-> "integer"]

Boolean == [reads |-> "boolean"]

Text == [reads |-> "text"]

List(type) == [reads |-> "list", of |-> type]

Map(type) == [reads |-> "map", of |-> type]

\* Union: the first type that reads a value.
Either(types) == [reads |-> "either", of |-> types]

Enum(values) == [reads |-> "enum", of |-> values]

Class(fields) == [reads |-> "class", of |-> fields]

\* Fields that must be there, and fields that may be missing or null.
Has(names, type) ==
    [i \in DOMAIN names |-> [name |-> names[i], type |-> type, optional |-> FALSE]]

May(names, type) ==
    [i \in DOMAIN names |-> [name |-> names[i], type |-> type, optional |-> TRUE]]

--------------------------------------------------------------------------------

DimensionWithTolerance == Class(
       May(<<"excludeMaximum", "excludeMinimum">>, Boolean)
    \o May(<<"maximum", "minimum", "nominal">>, Number))

Harmonics == Class(Has(<<"amplitudes", "frequencies">>, List(Number)))

WaveformLabel == Enum({
    "Bipolar Rectangular", "Bipolar Triangular", "Custom", "Flyback Primary",
    "Flyback Secondary", "Flyback Secondary With Deadtime", "Rectangular",
    "RectangularDCM", "Rectangular With Deadtime", "Secondary Rectangular",
    "Secondary Rectangular With Deadtime", "Sinusoidal", "Triangular",
    "Unipolar Rectangular", "Unipolar Triangular"})

Processed == Class(
       Has(<<"label">>, WaveformLabel)
    \o Has(<<"offset">>, Number)
    \o May(<<
            "acEffectiveFrequency", "average", "deadTime", "dutyCycle",
            "effectiveFrequency", "peak", "peakToPeak", "phase", "rms",
            "thd">>, Number))

Waveform == Class(
       Has(<<"data">>, List(Number))
    \o May(<<"numberPeriods">>, Integer)
    \o May(<<"ancillaryLabel">>, WaveformLabel)
    \o May(<<"time">>, List(Number)))

SignalDescriptor == Class(
       May(<<"harmonics">>, Harmonics)
    \o May(<<"processed">>, Processed)
    \o May(<<"waveform">>, Waveform))

OperatingPointExcitation == Class(
       Has(<<"frequency">>, Number)
    \o May(<<
            "current", "magneticFieldStrength", "magneticFluxDensity",
            "magnetizingCurrent">>, SignalDescriptor)
    \o May(<<"name">>, Text)
    \o May(<<"voltage">>, SignalDescriptor))

DistributorInfo == Class(
       Has(<<"name">>, Text)
    \o Has(<<"quantity">>, Number)
    \o Has(<<"reference">>, Text)
    \o May(<<"cost">>, Number)
    \o May(<<
            "country", "distributedArea", "email", "link", "phone",
            "updatedAt">>, Text))

FunctionalDescriptionType == Enum({"custom", "standard"})

Status == Enum({"obsolete", "production", "prototype"})

ManufacturerInfo == Class(
       Has(<<"name">>, Text)
    \o May(<<"cost", "datasheetUrl", "family", "orderCode", "reference">>,
           Text)
    \o May(<<"status">>, Status))

ColumnShape == Enum({"irregular", "oblong", "rectangular", "round"})

CoilAlignment == Enum({
    "centered", "inner or top", "outer or bottom", "spread"})

WindingOrientation == Enum({"contiguous", "overlapping"})

WindingWindowShape == Enum({"rectangular", "round"})

WindingWindowElement == Class(
       May(<<"area">>, Number)
    \o May(<<"coordinates">>, List(Number))
    \o May(<<"height">>, Number)
    \o May(<<"sectionsAlignment">>, CoilAlignment)
    \o May(<<"sectionsOrientation">>, WindingOrientation)
    \o May(<<"shape">>, WindingWindowShape)
    \o May(<<"width", "angle", "radialHeight">>, Number))

DielectricStrengthElement == Class(
       Has(<<"value">>, Number)
    \o May(<<"humidity", "temperature", "thickness">>, Number))

ResistivityPoint == Class(
       Has(<<"value">>, Number)
    \o May(<<"temperature">>, Number))

InsulationMaterial == Class(
       Has(<<"dielectricStrength">>, List(DielectricStrengthElement))
    \o Has(<<"name">>, Text)
    \o May(<<"aliases">>, List(Text))
    \o May(<<"composition", "manufacturer">>, Text)
    \o May(<<"meltingPoint", "relativePermittivity">>, Number)
    \o May(<<"resistivity">>, List(ResistivityPoint))
    \o May(<<"specificHeat", "temperatureClass", "thermalConductivity">>,
           Number))

Coating == Enum({"epoxy", "parylene"})

GapType == Enum({"additive", "residual", "subtractive"})

CoreGap == Class(
       Has(<<"length">>, Number)
    \o Has(<<"type">>, GapType)
    \o May(<<"area">>, Number)
    \o May(<<"coordinates">>, List(Number))
    \o May(<<
            "distanceClosestNormalSurface",
            "distanceClosestParallelSurface">>, Number)
    \o May(<<"sectionDimensions">>, List(Number))
    \o May(<<"shape">>, ColumnShape))

SaturationElement == Class(
       Has(<<"magneticField", "magneticFluxDensity", "temperature">>, Number))

MaterialEnum == Enum({
    "amorphous", "electricalSteel", "ferrite", "nanocrystalline", "powder"})

MaterialComposition == Enum({
    "Carbonyl Iron", "FeMo", "FeNi", "FeNiMo", "FeSi", "FeSiAl", "Iron",
    "MgZn", "MnZn", "NiZn", "Proprietary"})

FrequencyFactor == Class(
       Has(<<"a", "b", "c", "d">>, Number)
    \o May(<<"e">>, Number))

MagneticFieldDcBiasFactor == Class(
       Has(<<"a", "b", "c">>, Number)
    \o May(<<"d">>, Number))

MagneticFluxDensityFactor == Class(
       Has(<<"a", "b", "c", "d", "e", "f">>, Number))

InitialPermeabilitModifierMethod == Enum({
    "fair-rite", "magnetics", "micrometals"})

TemperatureFactor == Class(
       Has(<<"a">>, Number)
    \o May(<<"b", "c", "d", "e">>, Number))

InitialPermeabilitModifier == Class(
       May(<<"frequencyFactor">>, FrequencyFactor)
    \o May(<<"magneticFieldDcBiasFactor">>, MagneticFieldDcBiasFactor)
    \o May(<<"method">>, InitialPermeabilitModifierMethod)
    \o May(<<"temperatureFactor">>, TemperatureFactor)
    \o May(<<"magneticFluxDensityFactor">>, MagneticFluxDensityFactor))

PermeabilityPoint == Class(
       Has(<<"value">>, Number)
    \o May(<<
            "frequency", "magneticFieldDcBias",
            "magneticFluxDensityPeak">>, Number)
    \o May(<<"modifiers">>, Map(InitialPermeabilitModifier))
    \o May(<<"temperature", "tolerance">>, Number))

ComplexPermeabilityData == Class(
       Has(<<"imaginary", "real">>,
           Either(<<PermeabilityPoint, List(PermeabilityPoint)>>)))

Permeabilities == Class(
       Has(<<"initial">>,
           Either(<<PermeabilityPoint, List(PermeabilityPoint)>>))
    \o May(<<"amplitude">>,
           Either(<<PermeabilityPoint, List(PermeabilityPoint)>>))
    \o May(<<"complex">>, ComplexPermeabilityData))

CoreMaterialType == Enum({"commercial", "custom"})

VolumetricLossesPoint == Class(
       Has(<<"magneticFluxDensity">>, OperatingPointExcitation)
    \o Has(<<"origin">>, Text)
    \o Has(<<"temperature", "value">>, Number))

RoshenAdditionalCoefficients == Class(
       Has(<<
            "excessLossesCoefficient", "resistivityFrequencyCoefficient",
            "resistivityMagneticFluxDensityCoefficient", "resistivityOffset",
            "resistivityTemperatureCoefficient">>, Number))

LossFactorPoint == Class(
       Has(<<"value">>, Number)
    \o May(<<"frequency", "temperature">>, Number))

CoreLossesMethodType == Enum({
    "lossFactor", "magnetics", "micrometals", "roshen", "steinmetz"})

SteinmetzCoreLossesMethodRangeDatum == Class(
       Has(<<"alpha", "beta", "k">>, Number)
    \o May(<<"ct0", "ct1", "ct2", "maximumFrequency", "minimumFrequency">>,
           Number))

CoreLossesMethodData == Class(
       Has(<<"method">>, CoreLossesMethodType)
    \o May(<<"ranges">>, List(SteinmetzCoreLossesMethodRangeDatum))
    \o May(<<"coefficients">>, RoshenAdditionalCoefficients)
    \o May(<<"referenceVolumetricLosses">>, List(VolumetricLossesPoint))
    \o May(<<"a", "b", "c", "d">>, Number)
    \o May(<<"factors">>, List(LossFactorPoint)))

CoreMaterial == Class(
       Has(<<"manufacturerInfo">>, ManufacturerInfo)
    \o Has(<<"material">>, MaterialEnum)
    \o Has(<<"name">>, Text)
    \o Has(<<"permeability">>, Permeabilities)
    \o Has(<<"resistivity">>, List(ResistivityPoint))
    \o Has(<<"saturation">>, List(SaturationElement))
    \o Has(<<"type">>, CoreMaterialType)
    \o Has(<<"volumetricLosses">>,
           Map(List(Either(<<CoreLossesMethodData, List(VolumetricLossesPoint)>>))))
    \o May(<<"bhCycle", "coerciveForce">>, List(SaturationElement))
    \o May(<<"commercialName">>, Text)
    \o May(<<"curieTemperature", "density">>, Number)
    \o May(<<"family">>, Text)
    \o May(<<"heatCapacity", "heatConductivity">>, DimensionWithTolerance)
    \o May(<<"materialComposition">>, MaterialComposition)
    \o May(<<"remanence">>, List(SaturationElement)))

CoreShapeFamily == Enum({
    "c", "drum", "e", "ec", "efd", "ei", "el", "elp", "ep", "epx", "eq", "er",
    "etd", "h", "lp", "p", "planar e", "planar el", "planar er", "pm", "pq",
    "pqi", "rm", "rod", "t", "u", "ui", "ur", "ut"})

MagneticCircuit == Enum({"closed", "open"})

CoreShape == Class(
       Has(<<"family">>, CoreShapeFamily)
    \o Has(<<"type">>, FunctionalDescriptionType)
    \o May(<<"aliases">>, List(Text))
    \o May(<<"dimensions">>, Map(Either(<<DimensionWithTolerance, Number>>)))
    \o May(<<"familySubtype">>, Text)
    \o May(<<"magneticCircuit">>, MagneticCircuit)
    \o May(<<"name">>, Text))

CoreType == Enum({
    "closed shape", "piece and plate", "toroidal", "two-piece set"})

CoreFunctionalDescription == Class(
       Has(<<"gapping">>, List(CoreGap))
    \o Has(<<"material">>, Either(<<CoreMaterial, Text>>))
    \o Has(<<"shape">>, Either(<<CoreShape, Text>>))
    \o Has(<<"type">>, CoreType)
    \o May(<<"coating">>, Coating)
    \o May(<<"numberStacks">>, Integer))

Machining == Class(
       Has(<<"coordinates">>, List(Number))
    \o Has(<<"length">>, Number))

CoreGeometricalDescriptionElementType == Enum({
    "closed", "half set", "plate", "sheet", "spacer", "toroidal"})

CoreGeometricalDescriptionElement == Class(
       Has(<<"coordinates">>, List(Number))
    \o Has(<<"type">>, CoreGeometricalDescriptionElementType)
    \o May(<<"machining">>, List(Machining))
    \o May(<<"material">>, Either(<<CoreMaterial, Text>>))
    \o May(<<"rotation">>, List(Number))
    \o May(<<"shape">>, Either(<<CoreShape, Text>>))
    \o May(<<"dimensions">>, List(Number))
    \o May(<<"insulationMaterial">>, Either(<<InsulationMaterial, Text>>)))

ColumnType == Enum({"central", "lateral"})

ColumnElement == Class(
       Has(<<"area">>, Number)
    \o Has(<<"coordinates">>, List(Number))
    \o Has(<<"depth", "height">>, Number)
    \o Has(<<"shape">>, ColumnShape)
    \o Has(<<"type">>, ColumnType)
    \o Has(<<"width">>, Number)
    \o May(<<"minimumDepth", "minimumWidth">>, Number))

EffectiveParameters == Class(
       Has(<<
            "effectiveArea", "effectiveLength", "effectiveVolume",
            "minimumArea">>, Number))

CoreProcessedDescription == Class(
       Has(<<"columns">>, List(ColumnElement))
    \o Has(<<"depth">>, Number)
    \o Has(<<"effectiveParameters">>, EffectiveParameters)
    \o Has(<<"height", "width">>, Number)
    \o Has(<<"windingWindows">>, List(WindingWindowElement))
    \o May(<<"thermalResistance">>, Number))

MagneticCore == Class(
       Has(<<"functionalDescription">>, CoreFunctionalDescription)
    \o May(<<"distributorsInfo">>, List(DistributorInfo))
    \o May(<<"geometricalDescription">>,
           List(CoreGeometricalDescriptionElement))
    \o May(<<"manufacturerInfo">>, ManufacturerInfo)
    \o May(<<"name">>, Text)
    \o May(<<"processedDescription">>, CoreProcessedDescription))
================================================================================
