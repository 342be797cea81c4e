----------------------------- MODULE MCCatalog -----------------------------
(***************************************************************************)
(* Bundle files for Catalog: a whole one with bytes, a correction without  *)
(* (with a prerequisite elsewhere and two hints of one order), a CTFd      *)
(* export, and one of a later version; from the server, and from the       *)
(* command line without a directory or with another than the server's.     *)
(***************************************************************************)
EXTENDS Catalog, TLC

CONSTANTS dashes, heap, v1, v2, url

\* Blanks become dashes: "- -" and "   " have one slug.
MCSlugify == [t \in {"- -", "   ", "Heap"} |-> IF t = "Heap" THEN heap ELSE dashes]

Item(slug, title, text, requires, hints, file) ==
  [slug |-> slug, title |-> title, text |-> text, requires |-> requires,
   hints |-> hints, file |-> file]

Version(version, challenges) ==
  [feralctf_export_version |-> version, challenges |-> challenges]

Whole == Version(1, <<Item(dashes, "- -", v1, None, << >>, None),
                     Item(heap, "Heap", v1, dashes, <<1>>, [url |-> None, sha |-> v1, data |-> v1])>>)
Fix   == Version(1, <<Item(heap, "Heap", v2, dashes, <<1, 1>>, [url |-> None, sha |-> v1, data |-> None])>>)
Later == Version(2, << >>)
Ctfd  == ctfd_value_to_bundle(<<[slug |-> None, title |-> "- -", text |-> v1,
                                 hints |-> << >>, url |-> url]>>, MCSlugify)

MCZip == [p \in Places |-> IF p \in {heap, Top} THEN v2 ELSE None]

Ask(bundle, overwrite, dry_run, dir, zip) ==
  [bundle |-> bundle, overwrite |-> overwrite, dry_run |-> dry_run, dir |-> dir, zip |-> zip]

MCRequests ==
  {Ask(Whole, TRUE, FALSE, "own", NoZip), Ask(Whole, FALSE, FALSE, "none", NoZip),
   Ask(Fix, TRUE, FALSE, "own", NoZip), Ask(Fix, TRUE, FALSE, "other", NoZip),
   Ask(Ctfd, TRUE, FALSE, "own", MCZip), Ask(Later, FALSE, TRUE, "own", MCZip)}
MCSlugs == {dashes, heap}
MCTitles == DOMAIN MCSlugify
MCBlank == {"   "}
MCTexts == {v1, v2}
MCLinks == {url}

Symmetry == Permutations(Workers) \union Permutations(Teams)

=============================================================================
