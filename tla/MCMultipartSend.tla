-------------------------- MODULE MCMultipartSend --------------------------
(***************************************************************************)
(* Instances of MultipartSend for TLC.                                     *)
(***************************************************************************)
EXTENDS MultipartSend, TLC

\* An instance with a composite (README.md's Department) and one whose parts
\* are composites (README.md's DepartmentUpdate).
CONSTANTS m1, m2, department, update

MCMessages   == {m1, m2}
MCComposites == {department, update}
MCParts      == (department :> <<m1, m2>>) @@ (update :> <<department, m1>>)
MCCalls      == {<<m1>>, <<department, m2>>, <<m2, update>>}
=============================================================================
