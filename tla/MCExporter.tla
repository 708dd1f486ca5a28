----------------------------- MODULE MCExporter -----------------------------
(* Small instances of Exporter for TLC.                                    *)
EXTENDS Exporter

CONSTANTS a, b, root1, root2, direct, table

\* An offline set-up: its own root and address overrides.
demo == [zones |-> <<b>>, roots |-> root2, overrides |-> table]
\* The same zone listed twice, which config.validate accepts.
twice == [zones |-> <<a, a>>, roots |-> NoRoots, overrides |-> direct]
\* A zone on the default roots.
single == [zones |-> <<a>>, roots |-> NoRoots, overrides |-> direct]
\* One that differs in the zone alone.
other == [zones |-> <<b>>, roots |-> NoRoots, overrides |-> direct]

SmallConfigs == {single, demo}
\* What is published does not depend on the roots and overrides.
ServiceConfigs == {twice, other}
=============================================================================
