------------------------ MODULE MCValidatorRegistry ------------------------
(* Inputs of the model-checking runs of ValidatorRegistry. *)
EXTENDS ValidatorRegistry

Reg(key, timestamp, recipient) ==
    [public_key |-> key, timestamp |-> timestamp, fee_recipient |-> recipient, signed |-> TRUE]

\* A first registration, a forged renewal, and a batch that names a key twice: a renewal and
\* a registration with the timestamp of the first one.
MCBatches ==
    {<<Reg("a", 1, "f")>>,
     <<[Reg("a", 2, "g") EXCEPT !.signed = FALSE]>>,
     <<Reg("a", 2, "h"), Reg("a", 1, "g")>>}

\* A registration from later than the tolerance allows.
MCEarly == {<<Reg("a", 1, "f")>>, <<Reg("a", 30, "f"), Reg("b", 1, "f")>>}

=============================================================================
