------------------------------- MODULE DvSimCfg -------------------------------
(***************************************************************************)
(* The sim configs of the benches, as sim_cfg.py reads them: what a target   *)
(* defines, and the configs of the design that the T1 targets stand for.     *)
(*                                                                         *)
(* A target's name is [config, assert], assert for NAME-assert.  A define is *)
(* [name, rp, value]; rp is the i of AOU_RP<i>_DATA_W and -1 elsewhere, value *)
(* is 0 without one.  Files and directories of the sources are left out.     *)
(***************************************************************************)
EXTENDS Integers, Sequences, SequencesExt, FiniteSets

\* bench -> [list, defaults, targets]: the testlist, the defines of every
\* target, and a sequence of [name, defines].
CONSTANT SimCfg

TBs == DOMAIN SimCfg
TargetNames(tb) == [i \in DOMAIN SimCfg[tb].targets |-> SimCfg[tb].targets[i].name]
Own(tb, name) == SimCfg[tb].targets[SelectInSeq(TargetNames(tb), LAMBDA n : n = name)].defines

\* The defaults come first; a define that is there already is not repeated.
TargetDefines(tb, name) ==
  FoldLeft(LAMBDA ds, d : IF d \in ToSet(ds) THEN ds ELSE Append(ds, d), <<>>,
           SimCfg[tb].defaults \o Own(tb, name))
\* The first define of that name, so a target cannot override a default.
DefineValue(defines, name, rp, default) ==
  LET i == SelectInSeq(defines, LAMBDA d : d.name = name /\ d.rp = rp)
  IN  IF i = 0 THEN default ELSE defines[i].value

RowOf(defines) ==
  [widths |-> [i \in 1..DefineValue(defines, "AOU_RP_COUNT", -1, 1) |->
                 DefineValue(defines, "AOU_RP_DATA_W", i - 1,
                             DefineValue(defines, "AOU_RP_DATA_W", -1, 512))],
   fdi |-> DefineValue(defines, "AOU_FDI_CONFIG", -1, 1)]
ConfigRow(name) == RowOf(TargetDefines("t1", name))

\* The plain targets by config, and what the packing model takes of them: the
\* bytes per beat of each RP and per cycle of each PHY.
PlainConfigs == {name.config : name \in {n \in ToSet(TargetNames("t1")) : ~n.assert}}
T1Configs == [c \in PlainConfigs |-> ConfigRow([config |-> c, assert |-> FALSE])]
FdiPhyBytes == <<<<32>>, <<64>>, <<128>>, <<32, 64>>, <<64, 128>>>>
ReadConfigs ==
  LET read(row) == [rpBytes |-> [i \in DOMAIN row.widths |-> row.widths[i] \div 8],
                    phyBytes |-> FdiPhyBytes[row.fdi + 1]]
  IN  [c \in PlainConfigs |-> read(T1Configs[c])]

\* sim_cfg.py check: the register bench has T1's targets, and their defines but
\* for the one that gives T1 its AXI agents.
BenchesAgree ==
  /\ ToSet(TargetNames("t1")) = ToSet(TargetNames("reg"))
  /\ \A name \in ToSet(TargetNames("t1")) :
       TargetDefines("reg", name) =
         SelectSeq(TargetDefines("t1", name), LAMBDA d : d.name # "AOU_T1_AXI_AGENTS")
=============================================================================
