--------------------------- MODULE MCTemplateForm ---------------------------
\* A small template: an attribute, two tag fields, two galaxy fields and a file.
EXTENDS TemplateForm, TLC

CONSTANTS victim, tlp, phase, actor, tool, sample, amber, lure, apt, rat

MCFits == (tlp :> {amber}) @@ (phase :> {lure}) @@ (actor :> {apt}) @@ (tool :> {rat})

\* Clusters; tags and an attribute; an attribute and files.
MCTemplate == {{actor, tool}, {tlp, phase, victim}, {victim, sample}}
=============================================================================
