----------------------------- MODULE MCMpu6050 -----------------------------
(***************************************************************************)
(* Model values for checking the sensor object: measurements that differ   *)
(* in sign, and whose low byte has its highest bit set or not.             *)
(***************************************************************************)
EXTENDS Mpu6050

MCSamples == {-32768, -129, 128, 300}
=============================================================================
