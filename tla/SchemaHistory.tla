---------------------------- MODULE SchemaHistory ----------------------------
(***************************************************************************)
(* What migrations promise, whoever runs them and whatever fails: the      *)
(* changes of each file take effect once and whole, and on a schema that   *)
(* has all the files that sort before it in its release.                   *)
(***************************************************************************)
EXTENDS Naturals, Sequences

CONSTANT Images   \* releases, each with the files in its migrations folder
VARIABLE schema   \* the files whose changes took effect, in that order

Applied == {schema[i] : i \in 1 .. Len(schema)}

Init == schema = <<>>

Apply(image, file) ==
  /\ file \in image \ Applied
  /\ {f \in image : f < file} \subseteq Applied
  /\ schema' = Append(schema, file)

Next == \E image \in Images : \E file \in image : Apply(image, file)

Spec == Init /\ [][Next]_schema
=============================================================================
