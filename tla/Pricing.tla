-------------------------------- MODULE Pricing --------------------------------
(***************************************************************************)
(* What tokens cost.  Prices are in cents per million tokens, so that costs*)
(* are integers in units of a millionth of a cent; the code computes them  *)
(* in floating point.                                                      *)
(***************************************************************************)
EXTENDS Integers

Price(name, input, output) == [name |-> name, input |-> input, output |-> output]

Opus == Price("claude-4.6-opus", 500, 2500)
Flash == Price("gemini-2.5-flash", 15, 60)

\* Mutant of Catalog: a model is added that is dearer than the baseline.
CatalogOutgrown == {Opus, Flash, Price("gpt-5", 625, 5000)}

\* MODEL_PRICING_CATALOG.
Catalog ==
    {Opus, Flash,
     Price("gemini-2.5-pro", 125, 1000), Price("gpt-5", 125, 1000),
     Price("gpt-4.1-mini", 40, 160), Price("o3", 200, 800),
     Price("deepseek-r1", 55, 219), Price("deepseek-v3", 27, 110),
     Price("claude-haiku-4.5", 100, 500)}

\* get_model_pricing: a model that is not listed costs what Flash costs.
PriceOf(model) ==
    IF \E price \in Catalog : price.name = model
    THEN CHOOSE price \in Catalog : price.name = model
    ELSE Flash

\* ModelPricing.cost
Cost(price, input, output) == input * price.input + output * price.output

\* Tokens that were read and written.
Usage == [input : Nat, output : Nat]

UsageCost(price, usage) == Cost(price, usage.input, usage.output)
================================================================================
