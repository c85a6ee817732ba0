---------------------------- MODULE MCSensorApp ----------------------------
(* The application as it is configured.                                     *)
EXTENDS SensorApp

MCThreads == {Usart2, Bright, Temper, Shell, Idle}
MCScenarios ==
    {{"convert", "key"}, {"convert", "command"}, {"convert", "line", "contend", "last"}}
MCConversions == {{"convert", "last"}}
=============================================================================
