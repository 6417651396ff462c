------------------------------ MODULE MCSampler ------------------------------
(* Instances of Sampler for TLC.                                            *)
EXTENDS Sampler, TLC

CONSTANTS c1, c2, c3, a

\* One connection; two of one client, so that its count can change without
\* reaching zero; and one without a source address.
Single == c1 :> a
OneClient == c1 :> a @@ c2 :> a
Anonymous == c3 :> NoIP

\* The keys of clash.TrafficMessage's tags, and those cmd/mockclash sends.
Tags == "up" :> "up_bytes_per_second" @@ "down" :> "down_bytes_per_second"
MockKeys == "up" :> "up" @@ "down" :> "down"

\* Seconds, minutes, hours and days shrunk to 1, 2, 4 and 8 clock units.
Buckets == "sample" :> 1 @@ "minute" :> 2 @@ "hour" :> 4 @@ "day" :> 8

ConnSymmetry == Permutations({c1, c2})
==============================================================================
