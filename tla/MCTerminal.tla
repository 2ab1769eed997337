----------------------------- MODULE MCTerminal -----------------------------
(***************************************************************************)
(* The constants of Terminal that a .cfg cannot write.                     *)
(***************************************************************************)
EXTENDS Terminal

\* VERCEL_ENV=production; a preview with ALLOW_FIXTURE_FALLBACK; the same with
\* REQUIRE_SOURCE_BACKED_KR_PRIORITY.
Production == [kr |-> "required", other |-> "error"]
Preview    == [kr |-> "fixture", other |-> "fixture"]
KrPreview  == [kr |-> "required", other |-> "fixture"]

AnyDeployment == {Production, Preview, KrPreview}
PreviewOnly   == {Preview}
=============================================================================
