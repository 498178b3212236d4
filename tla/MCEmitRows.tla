----------------------------- MODULE MCEmitRows -----------------------------
(* Two types and fields, so that one stands before and one after the other, *)
(* and one parent of most other kinds.  The marshalling of a field is       *)
(* written again with the other value.                                      *)
EXTENDS EmitRows

MCCount == [TypeDef |-> 2, Field |-> 2, MethodDef |-> 1, Param |-> 1, Property |-> 1,
            Assembly |-> 1, GenericParam |-> 2]
MCData == [t \in Tables |-> CASE t = "GenericParam" -> 0 .. 1
                              [] t = "FieldMarshal" -> {"a", "b"}
                              [] OTHER -> {"a"}]
============================================================================
