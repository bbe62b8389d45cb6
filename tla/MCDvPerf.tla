------------------------------- MODULE MCDvPerf -------------------------------
(* One config with two RPs of different width and two PHYs, one with one RP;  *)
(* windows of one and both directions, uneven shares, partial strobes, long   *)
(* bursts and a tile.                                                         *)
EXTENDS DvPerf

define(name, rp, value) == [name |-> name, rp |-> rp, value |-> value]
plainTarget(config, defines) == [name |-> [config |-> config, assert |-> FALSE], defines |-> defines]
MCSimCfg == [tb \in {"t1"} |-> [list |-> "all", defaults |-> <<>>, targets |-> <<
  plainTarget("1x256", <<define("AOU_RP_DATA_W", -1, 256)>>),
  plainTarget("2xmix-tp", <<define("AOU_RP_COUNT", -1, 2), define("AOU_RP_DATA_W", 1, 256),
                            define("AOU_FDI_CONFIG", -1, 3)>>)>>]]

\* A stand-in for the external model: the FDI's bytes, less one part in so many
\* per request.  No data, no bytes.
count(side, k) == MapThenSumSet(LAMBDA x : x.count, {x \in side : x.kind = k})
MCRunDirs(fdi, a, b) ==
  LET dir(x, y) ==
        LET w == count(x, "W")
            r == count(y, "R")
            requests == count(x, "W") + count(x, "R") IN
        [bpc |-> IF w + r = 0 THEN 0 ELSE fdi * 90007 - 77773 * (requests % 7) - 11113 * (w % 5),
         msgs |-> [k \in {"req", "data"} |-> IF k = "req" THEN requests ELSE w + r]]
  IN  [AB |-> dir(a, b), BA |-> dir(b, a)]

window(name, dir, wr, beats) ==
  [scn |-> "S1", name |-> name, dir |-> dir, wr |-> wr, beats |-> beats, bytes |-> 0, offset |-> 0,
   partial |-> FALSE, rps |-> {}, widest |-> -1, remote |-> <<64>>, configs |-> {}, optional |-> FALSE]
mix == window("bw_mix", "both", 50, 16)
read == [window("bw_rd_r2l", "r2l", 0, 128) EXCEPT !.configs = {"1x256"}]
uneven == [window("pl_w40", "both", 50, 16) EXCEPT !.widest = 40, !.configs = {"2xmix-tp"}, !.partial = TRUE]
quarter == [window("mix_l2r", "l2r", 25, 4) EXCEPT !.rps = {1}, !.configs = {"2xmix-tp"}]
tile == [window("tile", "both", 50, 0) EXCEPT !.scn = "S6", !.bytes = 576, !.offset = 16,
                                              !.optional = TRUE, !.configs = {"1x256"}]
cross == [tile EXCEPT !.name = "tile_4k", !.bytes = 4096]
MCSources == {{mix, tile, cross}, {quarter, read, uneven}}
MCOverrides == {{}, {[key |-> <<"2xmix-tp", 1, "S1", "pl_w40", d>>, tol |-> IF d = "l2r" THEN 5 ELSE 1] :
                       d \in {"l2r", "r2l"}}}

\* Rates below the cap, at it, beside the bound on either side of what the third
\* decimal decides, and clearly above it; a run without a steady state.
plain == [split |-> 0, fullPct |-> 100]
test(pct, ss, gap, skew) ==
  [build |-> plain, outcome |-> [pct |-> pct, cycles |-> 12800, ss |-> ss, ok |-> TRUE, gap |-> gap, skew |-> skew]]
MCTests == {test(96, TRUE, -400000, 0), test(98, TRUE, 0, 0), test(110, FALSE, 0, 0),
            test(110, TRUE, 0, 0), test(110, TRUE, 1985, 0), test(110, TRUE, 2015, 0),
            test(110, TRUE, 2060, 0),
            [test(100, TRUE, -400000, 2) EXCEPT !.build = [split |-> 3, fullPct |-> 60]]}
=============================================================================
