----------------------------- MODULE VersionRules -----------------------------
(***************************************************************************)
(* The pure part of provisioning: which libraries of a version file apply  *)
(* on this platform (core/src/mojang.rs) and how Forge's version file is   *)
(* laid over the vanilla one it inherits from (core/src/forge.rs).         *)
(*                                                                         *)
(* A library is a record: name is its Maven coordinate, jar and native are *)
(* the files it names for this platform (None when it has none), own says  *)
(* that its jar has an empty URL, the one the Forge installer writes       *)
(* itself.                                                                 *)
(***************************************************************************)
EXTENDS Naturals, Sequences, SequencesExt

CONSTANTS
    Os,      \* this platform's os.name
    None     \* no os predicate; no file

Applies(rule) == rule.os \in {Os, None}

(* Mutated form: the first rule that applies decides.                       *)
RuleAllowsFirst(rules) ==
    \/ rules = <<>>
    \/ LET fit == SelectSeq(rules, Applies)
       IN  fit # <<>> /\ Head(fit).action = "allow"

(* rule_allows: no rules, or the last rule that applies allows.             *)
RuleAllows(rules) ==
    \/ rules = <<>>
    \/ FoldLeft(LAMBDA allowed, rule :
                    IF Applies(rule) THEN rule.action = "allow" ELSE allowed,
                FALSE, rules)

(* Mutated form: a library named already replaces the earlier one.          *)
AddLibraryLast(libs, lib) ==
    IF \E i \in DOMAIN libs : libs[i].name = lib.name
    THEN [i \in DOMAIN libs |-> IF libs[i].name = lib.name THEN lib ELSE libs[i]]
    ELSE Append(libs, lib)

(* merge: child libraries first, then the parent's not named already.       *)
AddLibrary(libs, lib) ==
    IF \E i \in DOMAIN libs : libs[i].name = lib.name
    THEN libs ELSE Append(libs, lib)

Merge(child, parent) == FoldLeft(AddLibrary, <<>>, child \o parent)

Allowed(libs) == {lib \in Range(libs) : RuleAllows(lib.rules)}
Jars(libs)    == {lib.jar : lib \in Allowed(libs)} \ {None}
Natives(libs) == {lib.native : lib \in Allowed(libs)} \ {None}
-----------------------------------------------------------------------------
(* What the two promise, over every list up to the given length.            *)

RulesAgreeOn(rule, n) ==
    \A rules \in BoundedSeq(rule, n) :
        RuleAllows(rules) <=>
            \/ rules = <<>>
            \/ \E i \in DOMAIN rules :
                  /\ Applies(rules[i]) /\ rules[i].action = "allow"
                  /\ \A j \in DOMAIN rules : Applies(rules[j]) => j <= i

(* Every name once, in the order of its first mention, and what Forge says *)
(* of a name is what stands.                                               *)
MergeShadowsOn(lib, n) ==
    \A child, parent \in BoundedSeq(lib, n) :
        LET all      == child \o parent
            merged   == Merge(child, parent)
            First(x) == CHOOSE i \in DOMAIN all :
                          /\ all[i].name = x
                          /\ \A j \in 1..(i - 1) : all[j].name # x
        IN  /\ {l.name : l \in Range(merged)} = {l.name : l \in Range(all)}
            /\ \A i \in DOMAIN merged :
                  /\ merged[i] = all[First(merged[i].name)]
                  /\ \A j \in 1..(i - 1) :
                        First(merged[j].name) < First(merged[i].name)
=============================================================================
