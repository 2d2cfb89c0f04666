---- MODULE MCGpioAmp ----
(* GpioAmp for both kinds of amplifier, with a pulse shorter than the      *)
(* debounce interval and one as long.                                      *)
EXTENDS GpioAmp

MCWidths == {0, 1, 2}
====
