----------------------------- MODULE MCProvision -----------------------------
EXTENDS Provision

lib(name, rules, jar, native, own) ==
    [name |-> name, rules |-> rules, jar |-> jar, native |-> native, own |-> own]

allow(os)    == [action |-> "allow", os |-> os]
disallow(os) == [action |-> "disallow", os |-> os]

(* Forge names one library that the vanilla file names too; the vanilla     *)
(* file has one that is natives only and one named twice, the second time   *)
(* for its natives, which the merge drops.                                  *)
MCChild  == <<lib("forge", <<>>, "self", None, TRUE),
              lib("trove", <<>>, "trove", None, FALSE),
              lib("jopt", <<>>, "jopt", None, FALSE)>>
MCParent == <<lib("jopt", <<>>, "jopt", None, FALSE),
              lib("objc", <<allow("osx")>>, "objc", None, FALSE),
              lib("objc", <<allow("osx")>>, None, "objc-natives", FALSE),
              lib("lwjgl", <<allow(None), disallow("linux")>>, None, "lwjgl", FALSE)>>
MCEntry  == [a \in {"lwjgl", "objc-natives"} |->
                IF a = "lwjgl" THEN {"lwjgl.dylib", "openal.dylib"} ELSE {"objc.dylib"}]

MCRule   == {allow(None), allow("osx"), allow("linux"),
             disallow(None), disallow("osx"), disallow("linux")}

MCLibrary == [name : {"a", "b"}, jar : {1, 2}]
=============================================================================
