------------------------------ MODULE MCSource ------------------------------
(* SourceCatalog for TLC: a game of each platform, the Wii game also on a      *)
(* second filesystem; a new installation and upgrades from schemas 1 and 2,    *)
(* with one root and with two, and with each kind of filesystem identity.      *)
EXTENDS SourceCatalog

CONSTANTS w, g

MCInstallations == {<<TRUE, "mount", 0>>, <<TRUE, "device", 1>>, <<FALSE, "stable", 2>>}

\* One root, legacy identities, the first start after an upgrade from schema 1.
UpgradedInstallation == {<<TRUE, "mount", 1>>}
=============================================================================
