--------------------------- MODULE ZeroizeDerive ----------------------------
(***************************************************************************)
(* zeroize_derive: #[derive(Zeroize)] and #[derive(ZeroizeOnDrop)] read a  *)
(* type's declaration and generate the calls that erase its fields; the    *)
(* fields' own implementations are those of module Zeroize.                *)
(*                                                                         *)
(* A behaviour of Zeroize goes on as it is; when none of its variables is  *)
(* alive, a type may be declared, a value of it made, used, zeroized and   *)
(* dropped.  Trait bounds of generic types are not modelled.               *)
(***************************************************************************)
EXTENDS Zeroize, SequencesExt, FiniteSets

CONSTANTS
    FieldKinds,     \* bound: the containers of fields
    FieldCells,     \* bound: cells of a field
    MaxMetas        \* bound: #[zeroize(..)] attributes of a declaration

Variants == {"v1", "v2"}

ASSUME DeriveAssumption ==
    /\ FieldKinds \subseteq Kinds
    /\ FieldCells \in 1..MaxCells /\ MaxMetas \in Nat
    /\ IsFiniteSet(Names) /\ Names \cap ({"item"} \cup Variants) = {}

VARIABLES
    decl,       \* the declaration of the type
    code,       \* what the derives generated for it
    item        \* none, panicked, rejected, compiled, and alive or zeroized

itemVars == <<decl, code, item>>
deriveVars == <<vars, itemVars>>

Places == {"item"} \cup Variants \cup Names

(* The attributes, by what the macros tell apart: skip_value is skip with  *)
(* a value or a list; malformed is any other name, a literal, or a bound   *)
(* that is no string or does not parse.                                    *)
Metas == {"drop", "bound", "skip", "skip_value", "malformed"}

(* What a field's type implements: Zeroize (or it derefs to such a type),  *)
(* ZeroizeOnDrop, or both, as Zeroizing does.                              *)
Traits == {"zeroize", "on_drop", "both"}

NoDecl == [kind |-> "none"]
NoCode == [zeroize |-> {}, on_drop |-> {}, drop |-> "none"]

FieldsOf(d, v) == {n \in Names : d.home[n] = v}
VariantsOf(d) == IF d.kind = "struct" THEN {"v1"} ELSE Variants

(* A struct is a single variant, which has the attributes of the struct.   *)
VariantAttrs(d, v) == IF d.kind = "struct" THEN d.attrs["item"] ELSE d.attrs[v]

-----------------------------------------------------------------------------
(* ZeroizeAttrs::parse: attributes with the level they stand at, the       *)
(* item's first; those of a struct are not taken again for its variant.    *)
At(level, attrs) == [i \in DOMAIN attrs |-> [meta |-> attrs[i], level |-> level]]
AtFields(d, v) ==
    LET fields == SetToSeq(FieldsOf(d, v))
    IN  FlattenSeq([i \in DOMAIN fields |-> At("field", d.attrs[fields[i]])])
ParseOrderTwice(d) ==    \* a bug: the attributes of a struct are taken twice
    LET OfVariant(v) == At("variant", VariantAttrs(d, v)) \o AtFields(d, v)
    IN  At("item", d.attrs["item"]) \o OfVariant("v1")
            \o (IF d.kind = "enum" THEN OfVariant("v2") ELSE <<>>)
ParseOrder(d) ==
    LET OfVariant(v) == At("variant", d.attrs[v]) \o AtFields(d, v)
    IN  At("item", d.attrs["item"]) \o (OfVariant("v1") \o OfVariant("v2"))

(* ZeroizeAttrs::parse_meta, with what it asserts and panics about.        *)
parse_meta(self, m) ==
    CASE m.meta = "drop"       -> [self EXCEPT !.ok = @ /\ ~self.drop /\ m.level = "item",
                                               !.drop = TRUE]
      [] m.meta = "bound"      -> [self EXCEPT !.ok = @ /\ ~self.bound /\ m.level = "item",
                                               !.bound = TRUE]
      [] m.meta \in {"skip", "skip_value"} -> [self EXCEPT !.ok = @ /\ m.level # "item"]
      [] m.meta = "malformed"  -> [self EXCEPT !.ok = FALSE]

ParseAll(order) ==
    LET self[i \in 0..Len(order)] ==
            IF i = 0 THEN [ok |-> TRUE, drop |-> FALSE, bound |-> FALSE]
            ELSE parse_meta(self[i - 1], order[i])
    IN  self[Len(order)]
Parse(d) == ParseAll(ParseOrder(d))

(* filter_skip: whether to keep what has the attributes; the second skip,  *)
(* or one where start is false already, panics.                            *)
filter_skip(attrs, start) ==
    LET skips == {i \in DOMAIN attrs : attrs[i] = "skip"}
    IN  [ok   |-> \A i \in skips : start /\ skips = {i},
         keep |-> start /\ skips = {}]

(* generate_fields: the fields the generated match calls its method on. A  *)
(* variant that is skipped has no arm.                                     *)
generate_fieldsOfAll(d) ==    \* a bug: skipped variants keep their arms
    [ok |-> \A v \in VariantsOf(d) :
                /\ filter_skip(VariantAttrs(d, v), TRUE).ok
                /\ \A n \in FieldsOf(d, v) :
                      filter_skip(d.attrs[n], filter_skip(VariantAttrs(d, v), TRUE).keep).ok,
     fields |-> {n \in Names : filter_skip(d.attrs[n], TRUE).keep}]
generate_fields(d) ==
    LET variant(v) == filter_skip(VariantAttrs(d, v), TRUE)
    IN  [ok |-> \A v \in VariantsOf(d) :
                    /\ variant(v).ok
                    /\ \A n \in FieldsOf(d, v) : filter_skip(d.attrs[n], variant(v).keep).ok,
         fields |-> {n \in Names : /\ variant(d.home[n]).keep
                                   /\ filter_skip(d.attrs[n], TRUE).keep}]

(* derive_zeroize, with the Drop of derive_zeroize_with_drop.              *)
derive_zeroize(d) ==
    LET gen == generate_fields(d)
    IN  [ok      |-> Parse(d).ok /\ gen.ok,
         fields  |-> gen.fields,
         drop    |-> Parse(d).drop]

(* derive_zeroize_on_drop reads no attribute but skip.                     *)
derive_zeroize_on_drop(d) == generate_fields(d)

Derives(d, trait) == trait \in d.derives
MacroPanics(d) ==
    \/ Derives(d, "Zeroize") /\ ~derive_zeroize(d).ok
    \/ Derives(d, "ZeroizeOnDrop") /\ ~derive_zeroize_on_drop(d).ok

Generated(d) ==
    LET z == derive_zeroize(d)
    IN  [zeroize |-> IF Derives(d, "Zeroize") THEN z.fields ELSE {},
         on_drop |-> IF Derives(d, "ZeroizeOnDrop") THEN derive_zeroize_on_drop(d).fields
                     ELSE {},
         drop    |-> IF Derives(d, "ZeroizeOnDrop") THEN "on_drop"
                     ELSE IF z.drop THEN "zeroize" ELSE "none"]

(* What rustc makes of it: there is one Drop at most, and zeroize() can be *)
(* called on types that implement Zeroize only.                            *)
Compiles(d) ==
    /\ ~(Derives(d, "ZeroizeOnDrop") /\ Derives(d, "Zeroize") /\ derive_zeroize(d).drop)
    /\ \A n \in Generated(d).zeroize : d.traits[n] # "on_drop"

-----------------------------------------------------------------------------
AllDead == \A n \in Names : IsDead(n)
LiveFields == {n \in Names : ~IsDead(n)}

DeriveInit == Init /\ decl = NoDecl /\ code = NoCode /\ item = "none"

(* A declaration with the attributes ms, given as pairs of place and meta. *)
Declaration(kind, home, ms, derives, traits) ==
    LET attrs[i \in 0..Len(ms)] ==
            IF i = 0 THEN [p \in Places |-> <<>>]
            ELSE [attrs[i - 1] EXCEPT ![ms[i][1]] = Append(@, ms[i][2])]
    IN  [kind |-> kind, home |-> home, derives |-> derives, traits |-> traits,
         attrs |-> attrs[Len(ms)]]

(* The declaration is compiled.                                            *)
Derive(d) ==
    /\ item = "none" /\ AllDead
    /\ \E n \in Names : d.home[n] = "v1"
    /\ d.kind = "struct" => \A n \in Names : d.home[n] = "v1"
    /\ d.kind = "struct" => \A v \in Variants : d.attrs[v] = <<>>
    /\ decl' = d
    /\ item' = (IF MacroPanics(d) THEN "panicked"
                ELSE IF ~Compiles(d) THEN "rejected" ELSE "compiled")
    /\ code' = (IF MacroPanics(d) \/ ~Compiles(d) THEN NoCode ELSE Generated(d))
    /\ UNCHANGED vars

(* A value of variant v, its fields full of secrets.                       *)
Construct(v, kinds, owning) ==
    /\ item = "compiled" /\ v \in VariantsOf(decl)
    /\ \A n \in Names : kinds[n] = "cstring" => ~owning[n]
    /\ vals' = [n \in Names |->
                   IF decl.home[n] # v THEN Dead ELSE Filled(kinds[n], owning[n], FieldCells)]
    /\ item' = "alive"
    /\ UNCHANGED <<erased, exposed, decl, code>>

(* The program uses a field as its type allows.                            *)
UseField(n) ==
    /\ item \in {"alive", "zeroized"}
    /\ Push(n) \/ Pop(n) \/ Take(n) \/ Refill(n)
    /\ Len(vals'[n].cells) <= FieldCells
    /\ item' = "alive"
    /\ UNCHANGED <<decl, code>>

(* The generated zeroize(): a call for every field of the live variant     *)
(* that has one.                                                           *)
ItemZeroize ==
    LET called == code.zeroize \cap LiveFields
    IN  /\ item \in {"alive", "zeroized"} /\ Derives(decl, "Zeroize")
        /\ vals' = [n \in Names |-> IF n \in called THEN Zeroized(vals[n]).val ELSE vals[n]]
        /\ erased' = erased \cup called
        /\ exposed' = (exposed \/ \E n \in called : Zeroized(vals[n]).exposes)
        /\ item' = "zeroized"
        /\ UNCHANGED <<decl, code>>

(* zeroize_or_on_drop leaves a field to its own Drop when its type has no  *)
(* Zeroize.                                                                *)
zeroize_or_on_drop(n) ==
    IF decl.traits[n] = "on_drop" THEN Result(vals[n], FALSE) ELSE Zeroized(vals[n])

(* The generated Drop::drop of field n.                                    *)
DropBody(n) ==
    CASE code.drop = "on_drop" /\ n \in code.on_drop -> zeroize_or_on_drop(n)
      [] code.drop = "zeroize" /\ n \in code.zeroize -> Zeroized(vals[n])
      [] OTHER                                       -> Result(vals[n], FALSE)

(* Then the field is dropped, whether it is skipped or not.                *)
DropGlue(n) ==
    LET body == DropBody(n)
        own == IF decl.traits[n] = "zeroize" THEN Result(body.val, FALSE)
               ELSE Zeroized(body.val)
    IN  Result(own.val, body.exposes \/ own.exposes \/ FreeExposes(own.val.cells))

(* What the declaration says, whatever was generated for it.               *)
SaysSkip(d, n) == "skip" \in ToSet(d.attrs[n]) \cup ToSet(VariantAttrs(d, d.home[n]))
SaysErased(d, n) ==
    /\ Derives(d, "ZeroizeOnDrop") \/ "drop" \in ToSet(d.attrs["item"])
    /\ ~SaysSkip(d, n)

ItemDrop ==
    /\ item \in {"alive", "zeroized"}
    /\ vals' = [n \in Names |-> Dead] /\ erased' = {}
    /\ exposed' = (exposed \/ \E n \in LiveFields :
                                 SaysErased(decl, n) /\ DropGlue(n).exposes)
    /\ item' = "none" /\ decl' = NoDecl /\ code' = NoCode

(* Another declaration.                                                    *)
Withdraw ==
    /\ item \in {"panicked", "rejected", "compiled"}
    /\ item' = "none" /\ decl' = NoDecl /\ code' = NoCode
    /\ UNCHANGED vars

DeriveNext ==
    \/ item = "none" /\ Next /\ UNCHANGED itemVars
    \/ /\ item = "none" /\ AllDead
       /\ \E kind \in {"struct", "enum"}, home \in [Names -> Variants],
             ms \in SeqOf(Places \X Metas, MaxMetas),
             derives \in (SUBSET {"Zeroize", "ZeroizeOnDrop"}) \ {{}},
             traits \in [Names -> Traits] :
             Derive(Declaration(kind, home, ms, derives, traits))
    \/ \E v \in Variants, kinds \in [Names -> FieldKinds], owning \in [Names -> BOOLEAN] :
          Construct(v, kinds, owning)
    \/ \E n \in Names : UseField(n)
    \/ ItemZeroize
    \/ ItemDrop
    \/ Withdraw

DeriveSpec == DeriveInit /\ [][DeriveNext]_deriveVars

-----------------------------------------------------------------------------
Wiped(x) ==
    /\ \A i \in DOMAIN x.cells : Harmless(x.cells[i])
    /\ x.kind \in {"vec", "opt_vec", "opt_array"} => Live(x) = 0

(* The zeroize() of a derived type erases every field of the live variant  *)
(* but the ones that are declared as skipped, alone or with their variant, *)
(* and those it leaves alone.                                              *)
DerivedErases ==
    [][item' = "zeroized" =>
          \A n \in LiveFields : IF SaysSkip(decl, n) THEN vals'[n] = vals[n]
                                ELSE Wiped(vals'[n])]_deriveVars

Count(attrs, meta) == Cardinality({i \in DOMAIN attrs : attrs[i] = meta})

Allowed(d) ==
    /\ \A meta \in {"drop", "bound"} :
          /\ Count(d.attrs["item"], meta) <= 1
          /\ \A p \in Places \ {"item"} : Count(d.attrs[p], meta) = 0
    /\ \A p \in Places : Count(d.attrs[p], "malformed") = 0
    /\ {"skip", "skip_value"} \cap ToSet(d.attrs["item"]) = {}
SkippedOnce(d) ==
    /\ \A v \in VariantsOf(d) : Count(VariantAttrs(d, v), "skip") <= 1
    /\ \A n \in Names :
          Count(VariantAttrs(d, d.home[n]), "skip") + Count(d.attrs[n], "skip") <= 1

(* skip on fields and variants and nothing else.                           *)
OnlySkips(d) ==
    d.attrs["item"] = <<>> /\ \A p \in Places : ToSet(d.attrs[p]) \subseteq {"skip"}

(* derive(Zeroize) panics about exactly the declarations its documentation *)
(* does not allow: drop and bound at the item, once, bound with            *)
(* predicates; skip at fields and variants, not twice on the way to a      *)
(* field; nothing else.  derive(ZeroizeOnDrop) alone accepts what its own  *)
(* documentation allows, skip on fields and variants, and panics about     *)
(* skip twice on the way to a field; of other attributes, which it does    *)
(* not read, nothing is said here: see OnDropReachesFields.                *)
AttributesChecked ==
    item # "none" =>
        IF Derives(decl, "Zeroize")
        THEN (item = "panicked") <=> ~(SkippedOnce(decl) /\ Allowed(decl))
        ELSE /\ ~SkippedOnce(decl) => item = "panicked"
             /\ SkippedOnce(decl) /\ OnlySkips(decl) => item # "panicked"

(* "The #[zeroize(skip)] attribute is not allowed on a `struct` or `enum`. *)
(* Use it on a field or variant instead."  So the Drop that                *)
(* derive(ZeroizeOnDrop) generates for a type that compiles erases every   *)
(* field but those with skip on the field or on its variant.               *)
OnDropReachesFields ==
    item \in {"compiled", "alive", "zeroized"} /\ Derives(decl, "ZeroizeOnDrop") =>
        \A n \in Names :
            \/ n \in code.on_drop
            \/ "skip" \in ToSet(decl.attrs[n])
            \/ decl.kind = "enum" /\ "skip" \in ToSet(decl.attrs[decl.home[n]])
=============================================================================
