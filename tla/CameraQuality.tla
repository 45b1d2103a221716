---------------------------- MODULE CameraQuality ----------------------------
(***************************************************************************)
(* The two scales of JPEG quality.  The user chooses 1..100, 100 the best; *)
(* the OV2640 driver wants 63..0, 0 the best.  camera_manager.cpp maps the *)
(* first scale to the second, and the web page, which only has the         *)
(* driver's register, maps it back with a formula of its own.              *)
(***************************************************************************)
EXTENDS Integers

UiMin     == 1
UiMax     == 100
DriverMax == 63
Byte      == 0 .. 255       \* what IotWebConf may hold for the parameter

Clamped(ui) ==
    IF ui < UiMin THEN UiMin ELSE IF ui > UiMax THEN UiMax ELSE ui

\* Integer division, as in the code; nothing is lost in the uint8_t result.
camera_map_quality(ui) == (DriverMax * (UiMax - Clamped(ui))) \div (UiMax - UiMin)

\* What render_template shows for a value of the register.
JpegQuality(driver) == UiMax - (driver * UiMax) \div DriverMax
=============================================================================
