--------------------------- MODULE MCFeatureStream ---------------------------
(* Three accepted identifiers, two of them in one byte of the bitmap, and  *)
(* one refused; payloads of two bytes.                                     *)
EXTENDS FeatureStream

MCCallerIds == {0, 7, 8, 16}
MCPayload == {<<0, 0>>, <<0, 3>>, <<2, 1>>}
MCZeroPayload == <<0, 0>>
Gap(m, n) == IF m >= n THEN m - n ELSE n - m
MCDistance(p, q) == Gap(p[1], q[1]) + Gap(p[2], q[2])
=============================================================================
