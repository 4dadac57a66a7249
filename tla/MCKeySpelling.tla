--------------------------- MODULE MCKeySpelling ---------------------------
(***************************************************************************)
(* A handful of spaces whose custom properties are named against the       *)
(* bundled ones, against each other and against stored keys, and every     *)
(* document of up to three of the keys at play in each.                    *)
(***************************************************************************)
EXTENDS Integers, FiniteSets, TLC, KeySpellingSafety

Custom == {"b1", "b2", "region", "cafe'", "long"}
Minted == {"b1", "b2"}

MCBundledName ==
  [due |-> "Due", creator |-> "Created by", format |-> "Format",
   hidden |-> "Hidden", score |-> "Score"]

\* b1 and b2 end alike
Suffix(name) == CASE name = "Region" -> "Region (t)" [] name = "Due" -> "Due (t)"
                  [] name = "region" -> "region (t)" [] OTHER -> "long"

MCSuffixed ==
  [pair \in {"Region", "Due", "region"} \X Minted |-> Suffix(pair[1])]

MCTerms ==
  DOMAIN MCBundledName \cup {MCBundledName[k] : k \in DOMAIN MCBundledName} \cup Custom
  \cup {"Region", "Region (t)", "Due (t)", "region (t)", "Cafe", "cafe", "Plan", "type"}

MCWritable == MCTerms \ {"long"}

MCNfc == [t \in MCTerms |-> IF t = "cafe'" THEN "cafe" ELSE t]

MCFold ==
  [t \in MCTerms |->
     CASE t \in {"due", "Due"} -> "due" [] t \in {"cafe'", "cafe", "Cafe"} -> "cafe"
       [] t \in {"format", "Format"} -> "format" [] t \in {"hidden", "Hidden"} -> "hidden"
       [] t \in {"score", "Score"} -> "score" [] t \in {"region", "Region"} -> "region"
       [] t = "Created by" -> "createdby" [] OTHER -> t]

Names(names, gone, keys) == [names |-> names, gone |-> gone, keys |-> keys]

Rooms ==
  [ twins    |-> Names([b1 |-> "Region", b2 |-> "Region"], [region |-> "Region"],
                       {"b1", "b2", "region"}),
    suffix   |-> Names([b1 |-> "Region", b2 |-> "Due", region |-> "Region (t)"],
                       [long |-> "Region"], {"b1", "b2", "region", "due", "long"}),
    bundled  |-> Names([b1 |-> "Due", b2 |-> "Hidden", region |-> "Created by"], <<>>,
                       {"b1", "b2", "region", "due", "hidden", "creator"}),
    internal |-> Names([b1 |-> "Format", region |-> "Score"], [b2 |-> "Due"],
                       {"b1", "b2", "region", "format", "score", "due"}),
    corpse   |-> Names([b1 |-> "region", b2 |-> "type"], [region |-> "Region"],
                       {"b1", "b2", "region", "due"}),
    stored   |-> Names([b1 |-> "region", b2 |-> "region", region |-> "Plan"], <<>>,
                       {"b1", "b2", "region", "creator"}),
    forms    |-> Names(("cafe'" :> "Plan") @@ [b1 |-> "cafe"], [b2 |-> "Plan"],
                       {"b1", "b2", "cafe'", "due"}) ]

Shapes ==
  [ table   |-> [asked |-> FALSE, first |-> FALSE, lists |-> FALSE],
    both    |-> [asked |-> TRUE, first |-> FALSE, lists |-> TRUE],
    bundled |-> [asked |-> TRUE, first |-> TRUE, lists |-> TRUE],
    alone   |-> [asked |-> TRUE, first |-> TRUE, lists |-> FALSE] ]

MCSpace ==
  [s \in (DOMAIN Rooms) \X (DOMAIN Shapes) |->
     [names |-> Rooms[s[1]].names, gone |-> Rooms[s[1]].gone] @@ Shapes[s[2]]]

\* where a document may name a key
Roles == (SUBSET {"detail", "slot", "unwritten"}) \ {{}, {"slot", "unwritten"},
          {"detail", "unwritten"}, {"detail", "slot", "unwritten"}}

Document(role) ==
  LET In(place) == {k \in DOMAIN role : place \in role[k]}
  IN [details |-> In("detail"), slots |-> In("slot"), unwritten |-> In("unwritten")]

DocumentsOf(keys) ==
  {Document(role) : role \in UNION {[ks -> Roles] : ks \in {ks \in SUBSET keys :
                                       Cardinality(ks) \in 1..3}}}

MCDocuments == [s \in DOMAIN MCSpace |-> DocumentsOf(Rooms[s[1]].keys)]
============================================================================
