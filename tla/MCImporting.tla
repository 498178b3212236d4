----------------------------- MODULE MCImporting -----------------------------
(* app.exe and its netmodule import from each other and from two libraries. *)
(* lib.dll has a key; its references are to the ECMA library by whole key,  *)
(* to app.exe, to a library both know by its token, and to one of the same  *)
(* version that neither knows.  core.dll is the ECMA library, which both    *)
(* know.  app.exe has a reference to lib.dll whose key is malformed, its    *)
(* netmodule a sound one.                                                   *)
EXTENDS Importing

Ref(name, build, key) ==
    [version |-> 1, build |-> build, name |-> name, key |-> key,
     full |-> key # NoKey /\ key[1] = "key"]
T(scope) == [scope |-> scope, name |-> "type"]

MCMvid == [app |-> 1, net |-> 2, lib |-> 3, core |-> 4]
MCModuleName == [app |-> "app.exe", net |-> "net", lib |-> "lib.dll", core |-> "core.dll"]
MCTypeDefs == [app |-> 1, net |-> 1, lib |-> 1, core |-> 1]
MCAssembly == [app |-> Ref("app", 0, NoKey), net |-> NoAssembly,
               lib |-> Ref("lib", 0, <<"key", "k">>), core |-> Ref("core", 0, <<"key", "ecma">>)]

Tables(assemblyRefs, moduleRefs, typeRefs, typeSpecs) ==
    [AssemblyRef |-> assemblyRefs, ModuleRef |-> moduleRefs,
     TypeRef |-> typeRefs, TypeSpec |-> typeSpecs]

MCTypeSpecs == [app |-> << >>, net |-> << >>, core |-> << >>, lib |-> <<<<>>>>]

MCLoaded ==
    [app |-> Tables(<<Ref("core", 0, <<"token", "ecma">>), Ref("util", 0, NoKey),
                  Ref("lib", 0, <<"key", "bad">>)>>, << >>,
                    <<T(<<"AssemblyRef", 1>>), T(<<"AssemblyRef", 2>>)>>, << >>),
     net |-> Tables(<<Ref("util", 0, NoKey), Ref("lib", 0, <<"token", "k">>),
                      Ref("core", 0, <<"token", "ecma">>)>>, <<"app.exe">>,
                    <<T(<<"ModuleRef", 1>>), T(<<"Module", 1>>), T(NoToken)>>, << >>),
     lib |-> Tables(<<Ref("core", 1, <<"key", "ecma">>), Ref("app", 0, NoKey), Ref("util", 0, NoKey),
                      Ref("extra", 0, NoKey)>>, <<"part">>,
                    <<T(<<"AssemblyRef", 1>>), T(<<"AssemblyRef", 2>>), T(<<"AssemblyRef", 3>>),
                      T(<<"AssemblyRef", 4>>), T(<<"TypeRef", 4>>), T(<<"ModuleRef", 1>>)>>,
                    MCTypeSpecs.lib),
     core |-> Tables(<< >>, <<"corepart">>, <<T(<<"Module", 1>>), T(<<"ModuleRef", 1>>)>>, << >>)]

Element(row) == <<<<"TypeRef", row>>>>
MCSignatures ==
    [app |-> {<<Element(2)>>},
     net |-> {<<Element(r)>> : r \in 1 .. 3},
     lib |-> {<<Element(r)>> : r \in (1 .. 6) \ {4}} \cup
             {<<<<>>, <<<<"TypeSpec", 1>>>>, <<<<"TypeRef", 3>>, <<"TypeRef", 1>>>>>>},
     core |-> {<<Element(1)>>, <<Element(2)>>}]

S(a, m) == [assembly |-> a, module |-> m]
MCSources == {S("app", "app"), S("app", "net"), S("lib", "lib"), S("core", "core")}
MCTargets == {S("app", "app"), S("app", "net")}
MCLooseNames == {"core"}
=============================================================================
