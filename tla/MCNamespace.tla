---------------------------- MODULE MCNamespace ----------------------------
(* Small instances of Namespace: which specs users apply. *)
EXTENDS Namespace

MCNamedSpecs == {s \in NamespaceSpec : s.named}

(* Every way to name a bucket, and two of them without the name. *)
MCSpecs == MCNamedSpecs \cup {[ref |-> "b1", arn |-> Nil,  named |-> FALSE],
                              [ref |-> Nil,  arn |-> "b1", named |-> FALSE]}
=============================================================================
