----------------------------- MODULE MCInstaller -----------------------------
(* Small instances of Installer.tla for TLC. *)
EXTENDS Installer, TLC

CONSTANTS json, toml, other

MCRows   == <<json, toml>>
MCLinked == {<<toml, "backup">>}
Own      == [servers |-> {other}, ours |-> FALSE]
MCTexts  == {NoFile, Own, Odd}
MCEdits  == {[servers |-> {}, ours |-> FALSE]}
MCSymmetry == Permutations(Pids)
=============================================================================
