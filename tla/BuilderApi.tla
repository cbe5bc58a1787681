----------------------------- MODULE BuilderApi -----------------------------
(***************************************************************************)
(* Versioned messages of the builder API between relay, mev-boost and      *)
(* consensus client (mev-rs/src/types, mev-rs/src/blinded_block_provider). *)
(* A message is an enum with a variant per fork, written without a tag: a  *)
(* reader does not use the version sent along and takes the first variant  *)
(* that fits the fields.  The execution header or payload inside is tagged *)
(* by its own fields (`fork', external to the repository).                 *)
(***************************************************************************)
EXTENDS Naturals, Sequences, SequencesExt

CONSTANT None   \* a field that is absent

Forks == {"bellatrix", "capella", "deneb"}

\* Mutant of VariantOrder: the variants are tried from the oldest fork on.
OldestFirst == <<"bellatrix", "capella", "deneb">>

\* The order in which Deserialize tries the variants.
VariantOrder == <<"deneb", "capella", "bellatrix">>

\* A bid is read field by field: Deneb's needs commitments, the others ignore them.
BidParses(variant, json) == variant = "deneb" => json.commitments # None

\* Deneb's contents wrap the payload and its blobs; the others are the payload itself.
ContentsParse(variant, json) == variant = "deneb" <=> json.commitments # None

BidVariant(json) ==
    VariantOrder[SelectInSeq(VariantOrder, LAMBDA v : BidParses(v, json))]

ContentsVariant(json) ==
    VariantOrder[SelectInSeq(VariantOrder, LAMBDA v : ContentsParse(v, json))]

\* blob_kzg_commitments of a bid that was read.
BlobKzgCommitments(json) == IF BidVariant(json) = "deneb" THEN json.commitments ELSE None

\* blobs_bundle of contents that were read.
BlobsBundle(json) == IF ContentsVariant(json) = "deneb" THEN json.commitments ELSE None

\* handle_fetch_bid announces the variant of the bid ...
BidVersion(json) == BidVariant(json)

\* ... and handle_open_bid the fork of the payload in the contents.
ContentsVersion(json) == json.fork

=============================================================================
