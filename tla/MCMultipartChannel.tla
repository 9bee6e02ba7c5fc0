------------------------- MODULE MCMultipartChannel -------------------------
(***************************************************************************)
(* Instances of MultipartChannel for TLC.                                  *)
(***************************************************************************)
EXTENDS MultipartChannel, TLC

\* Composites as README.md's Department, and one with a Department as its last
\* part.
CONSTANTS m1, m2, department, update

MCMessages   == {m1, m2}
MCComposites == {department, update}
MCParts      == (department :> <<m1, m2>>) @@ (update :> <<m2, department>>)

\* The sender's parameters stand for messages of two, three and four frames,
\* the receiver's fit those of two and three: each of them can be right, too
\* short or too long for the message that is next.
MCSendArgs    == {<<m1, m2>>, <<department, m2>>, <<update, m1>>}
MCReceiveArgs == {<<department>>, <<update>>}
=============================================================================
