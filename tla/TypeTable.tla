----------------------------- MODULE TypeTable -----------------------------
(***************************************************************************)
(* The preset uniform type descriptors of preset_type_descriptors.cpp: the  *)
(* literals InitDescriptors copies into typeDescriptors_, one definition for *)
(* each half of a literal.  A row keeps its typeId and its belongingToTypes; *)
(* file extensions, MIME types, descriptions and icons are left out.        *)
(* Consecutive rows with the same parents are written together.             *)
(***************************************************************************)
EXTENDS Sequences, Naturals

\* Mutant of Of: rows pasted from the entry above, left beneath the type itself.
OfItself(parents, ids) ==
  [i \in 1..Len(ids) |-> [typeId |-> ids[i],
     belongingToTypes |-> IF parents = {"general.media"} THEN {ids[i]} ELSE parents]]

Of(parents, ids) ==
  [i \in 1..Len(ids) |-> [typeId |-> ids[i], belongingToTypes |-> parents]]

typeDescriptorsA ==
  Of({}, <<"general.entity", "general.object">>)
  \o Of({"general.object"}, <<"general.composite-object", "general.text">>)
  \o Of({"general.text"}, <<"general.plain-text", "general.html", "general.hyperlink", "general.xml">>)
  \o Of({"general.xml"}, <<"com.real.smil">>)
  \o Of({"general.text"}, <<"general.source-code">>)
  \o Of({"general.source-code"}, <<"general.script">>)
  \o Of({"general.script"}, <<"general.shell-script">>)
  \o Of({"general.shell-script"}, <<"general.csh-script", "general.perl-script", "general.php-script",
       "general.python-script">>)

typeDescriptorsB ==
  Of({"general.shell-script"}, <<"general.ruby-script">>)
  \o Of({"general.source-code"}, <<"general.type-script", "general.java-script", "general.c-header",
       "general.c-source", "general.c-plus-plus-header", "general.c-plus-plus-source", "general.java-source">>)
  \o Of({"general.text"}, <<"general.markdown">>)
  \o Of({"general.composite-object"}, <<"general.ebook">>)
  \o Of({"general.ebook"}, <<"general.epub", "com.amazon.azw", "com.amazon.azw3", "com.amazon.kfx",
       "com.amazon.mobi">>)
  \o Of({"general.object"}, <<"general.media">>)

more01A ==
  Of({"general.media"}, <<"general.image">>)
  \o Of({"general.image"}, <<"general.jpeg", "general.png", "general.raw-image", "general.tiff",
       "com.microsoft.bmp", "com.microsoft.ico", "com.adobe.photoshop-image", "com.adobe.illustrator.ai-image",
       "general.fax">>)
  \o Of({"general.fax"}, <<"com.j2.jfx-fax", "com.js.efx-fax">>)
  \o Of({"general.image"}, <<"general.xbitmap-image", "com.truevision.tga-image", "com.sgi.sgi-image",
       "com.ilm.openexr-image">>)

more01B ==
  Of({"general.image"}, <<"com.kodak.flashpix.image">>)
  \o Of({"general.composite-object"}, <<"com.microsoft.word.doc", "com.microsoft.excel.xls",
       "com.microsoft.powerpoint.ppt", "com.adobe.pdf", "com.adobe.postscript">>)
  \o Of({"com.adobe.postscript"}, <<"com.adobe.encapsulated-postscript">>)
  \o Of({"general.media"}, <<"general.video">>)
  \o Of({"general.video"}, <<"general.avi", "general.mpeg", "general.mpeg-4", "general.3gpp", "general.3gpp2">>)
  \o Of({"general.video", "com.microsoft.advanced-systems-format"}, <<"com.microsoft.windows-media-wm",
       "com.microsoft.windows-media-wmv", "com.microsoft.windows-media-wmp">>)

more02A ==
  Of({"general.video", "com.microsoft.advanced-systems-format"}, <<"com.microsoft.windows-media-wvx",
       "com.microsoft.windows-media-wmx">>)
  \o Of({"general.video"}, <<"com.real.realmedia">>)
  \o Of({"general.media"}, <<"general.audio">>)
  \o Of({"general.audio"}, <<"general.aac", "general.aiff", "general.alac", "general.flac", "general.mp3",
       "general.ogg", "general.pcm">>)
  \o Of({"general.media"}, <<"com.microsoft.advanced-systems-format">>)
  \o Of({"general.video"}, <<"com.microsoft.advanced-stream-redirector">>)
  \o Of({"general.audio", "com.microsoft.advanced-systems-format"}, <<"com.microsoft.windows-media-wma",
       "com.microsoft.waveform-audio", "com.microsoft.windows-media-wax">>)

more02B ==
  Of({"general.audio"}, <<"general.au-audio", "general.aifc-audio", "com.digidesign.sd2-audio",
       "com.real.realaudio">>)
  \o Of({"general.entity"}, <<"general.file", "general.directory">>)
  \o Of({"general.directory"}, <<"general.folder">>)
  \o Of({"general.entity"}, <<"general.symlink">>)
  \o Of({"general.object"}, <<"general.archive">>)
  \o Of({"general.archive"}, <<"general.bz2-archive", "general.disk-image", "general.tar-archive",
       "general.zip-archive">>)
  \o Of({"general.archive", "general.executable"}, <<"com.sun.java-archive">>)
  \o Of({"general.archive"}, <<"org.gnu.gnu-tar-archive", "org.gnu.gnu-zip-archive">>)

more03A ==
  Of({"general.archive"}, <<"org.gnu.gnu-zip-tar-archive", "org.openxmlformats.openxml">>)
  \o Of({"general.composite-object", "org.openxmlformats.openxml"},
       <<"org.openxmlformats.wordprocessingml.document", "org.openxmlformats.spreadsheetml.sheet",
       "org.openxmlformats.presentationml.presentation">>)
  \o Of({"general.archive"}, <<"org.oasis.opendocument">>)
  \o Of({"general.composite-object", "org.oasis.opendocument"}, <<"org.oasis.opendocument.text",
       "org.oasis.opendocument.spreadsheet", "org.oasis.opendocument.presentation",
       "org.oasis.opendocument.graphics">>)
  \o Of({"org.oasis.opendocument"}, <<"org.oasis.opendocument.formula">>)
  \o Of({"general.archive"}, <<"com.allume.stuffit-archive">>)
  \o Of({"general.text"}, <<"general.calendar">>)
  \o Of({"general.calendar"}, <<"general.vcs", "general.ics">>)
  \o Of({"general.object"}, <<"general.contact">>)

more03B ==
  Of({"general.object"}, <<"general.database", "general.message", "general.executable">>)
  \o Of({"general.executable"}, <<"com.microsoft.portable-executable", "com.sun.java-class">>)
  \o Of({"general.object"}, <<"general.vcard", "general.navigation">>)
  \o Of({"general.navigation"}, <<"general.location">>)
  \o Of({"general.object"}, <<"general.font">>)
  \o Of({"general.font"}, <<"general.truetype-font", "general.truetype-collection-font",
       "general.opentype-font", "com.adobe.postscript-font">>)
  \o Of({"general.object"}, <<"openharmony.form", "openharmony.app-item">>)
  \o Of({"general.image"}, <<"openharmony.pixel-map">>)

more04A ==
  Of({"general.object"}, <<"openharmony.atomic-service">>)
  \o Of({"general.directory"}, <<"openharmony.package">>)
  \o Of({"openharmony.package"}, <<"openharmony.hap">>)
  \o Of({"general.composite-object"}, <<"openharmony.hdoc", "openharmony.hinote", "openharmony.styled-string">>)
  \o Of({"general.object"}, <<"openharmony.want">>)
  \o Of({"general.media"}, <<"openharmony.moving-photo">>)
  \o Of({"general.disk-image"}, <<"macos.dmg">>)
  \o Of({"general.archive"}, <<"debian.deb">>)
  \o Of({"general.composite-object"}, <<"general.ofd">>)
  \o Of({"general.archive"}, <<"general.opg">>)
  \o Of({"general.source-code"}, <<"general.tex">>)
  \o Of({"general.script"}, <<"general.css">>)
  \o Of({"general.video"}, <<"general.vob", "general.dif-video">>)

more04B ==
  Of({"general.video"}, <<"general.dv-video", "general.flc-animation", "general.mng", "general.mpegurl-video",
       "general.ts">>)
  \o Of({"general.audio"}, <<"general.amr", "general.amr-wb", "general.gsm", "general.imy", "general.kar",
       "general.mpegurl-audio", "general.mpeg-4-audio", "general.midi-audio", "general.mp2",
       "general.mpeg-audio", "general.mxmf">>)

more05A ==
  Of({"general.audio"}, <<"general.ota", "general.pls", "general.rtttl", "general.psid", "general.ulaw-audio",
       "general.xmf">>)
  \o Of({"general.image"}, <<"general.gif", "general.djvu-image", "general.jng-image", "general.pcx-image",
       "general.pbm-image", "general.pgm-image", "general.pnm-image", "general.ppm-image", "general.rgb-image",
       "general.svg-image">>)

more05B ==
  Of({"general.image"}, <<"general.wbmp-image", "general.xpixmap-image", "general.xwindowdump-image",
       "general.heif", "general.heic">>)
  \o Of({"general.disk-image"}, <<"general.virtual-cd">>)
  \o Of({"general.source-code"}, <<"general.boo-source", "general.d-source", "general.html-component",
       "general.pascal-source">>)
  \o Of({"general.script"}, <<"general.haskell-script", "general.literate-haskell-script",
       "general.tcl-script">>)
  \o Of({"general.text"}, <<"general.asc-text", "general.portable-object", "general.rich-text">>)

more06A ==
  Of({"general.text"}, <<"general.delimited-values-text">>)
  \o Of({"general.delimited-values-text"}, <<"general.comma-separated-values-text">>)
  \o Of({"general.text"}, <<"general.diff", "general.setext", "general.gcd">>)
  \o Of({"general.delimited-values-text"}, <<"general.tab-separated-values-text">>)
  \o Of({"general.text"}, <<"general.p7r", "general.pem">>)
  \o Of({"general.plain-text"}, <<"general.chess-pgn">>)
  \o Of({"general.archive"}, <<"general.lha-archive", "general.lzh-archive", "general.lzx-archive">>)
  \o Of({"general.tar-archive"}, <<"general.taz-archive">>)
  \o Of({"general.archive"}, <<"general.shar-archive", "general.cpio-archive", "general.web-archive">>)

more06B ==
  Of({"general.archive"}, <<"general.ustar">>)
  \o Of({"general.xml"}, <<"general.mathml", "general.xhtml", "general.rss", "general.rdf">>)
  \o Of({"general.object"}, <<"general.cad">>)
  \o Of({"general.cad"}, <<"general.iges">>)
  \o Of({"general.object"}, <<"general.octet-stream">>)
  \o Of({"general.disk-image"}, <<"general.iso">>)
  \o Of({"general.object"}, <<"general.mesh-model", "general.certificate">>)
  \o Of({"general.executable"}, <<"general.c-object">>)
  \o Of({"general.tex"}, <<"general.dvi">>)
  \o Of({"general.certificate"}, <<"general.cer-certificate", "general.crt-certificate",
       "general.crl-certificate">>)

more07A ==
  Of({"general.composite-object"}, <<"general.prn">>)
  \o Of({"org.oasis.opendocument", "general.composite-object"}, <<"org.oasis-open.opendocument.chart",
       "org.oasis-open.opendocument.text-master", "org.oasis-open.opendocument.text-web">>)
  \o Of({"org.oasis.opendocument", "general.database"}, <<"org.oasis-open.opendocument.database">>)
  \o Of({"org.oasis.opendocument", "general.image"}, <<"org.oasis-open.opendocument.image">>)
  \o Of({"org.oasis.opendocument", "general.composite-object"},
       <<"org.oasis-open.opendocument.formula-template", "org.oasis-open.opendocument.chart-template",
       "org.oasis-open.opendocument.presentation-template">>)
  \o Of({"org.oasis.opendocument", "general.image"}, <<"org.oasis-open.opendocument.image-template">>)
  \o Of({"org.oasis.opendocument", "general.composite-object"},
       <<"org.oasis-open.opendocument.graphics-template", "org.oasis-open.opendocument.spreadsheet-template",
       "org.oasis-open.opendocument.text-template">>)
  \o Of({"general.composite-object"}, <<"com.microsoft.word.dot", "com.microsoft.powerpoint.pps",
       "com.microsoft.powerpoint.pot">>)

more07B ==
  Of({"general.composite-object"}, <<"com.microsoft.excel.xlt", "com.microsoft.visio.vsd">>)
  \o Of({"org.openxmlformats.openxml", "general.composite-object"}, <<"org.openxmlformats.drawingml.visio",
       "org.openxmlformats.drawingml.template", "org.openxmlformats.drawingml.visio.macroenabled",
       "org.openxmlformats.drawingml.template.macroenabled", "org.openxmlformats.wordprocessingml.template",
       "org.openxmlformats.presentationml.template", "org.openxmlformats.presentationml.slideshow",
       "org.openxmlformats.spreadsheetml.template">>)
  \o Of({"org.openxmlformats.openxml", "general.composite-object", "general.executable"},
       <<"org.openxmlformats.wordprocessingml.document.macroenabled",
       "org.openxmlformats.wordprocessingml.template.macroenabled",
       "org.openxmlformats.spreadsheetml.template.macroenabled",
       "org.openxmlformats.spreadsheetml.addin.macroenabled",
       "org.openxmlformats.spreadsheetml.binary.macroenabled",
       "org.openxmlformats.spreadsheetml.sheet.macroenabled">>)

more08A ==
  Of({"org.openxmlformats.openxml", "general.composite-object", "general.executable"},
       <<"org.openxmlformats.presentationml.addin.macroenabled",
       "org.openxmlformats.presentationml.presentation.macroenabled",
       "org.openxmlformats.presentationml.slideshow.macroenabled",
       "org.openxmlformats.presentationml.template.macroenabled">>)
  \o Of({"general.archive"}, <<"org.openoffice">>)
  \o Of({"org.openoffice", "general.composite-object"}, <<"org.openoffice.calc", "org.openoffice.draw",
       "org.openoffice.writer-global", "org.openoffice.impress", "org.openoffice.math", "org.openoffice.writer",
       "org.openoffice.calc.template", "org.openoffice.draw.template", "org.openoffice.impress.template",
       "org.openoffice.writer.template">>)
  \o Of({"general.archive"}, <<"com.staroffice">>)

more08B ==
  Of({"com.staroffice", "general.composite-object"}, <<"com.staroffice.draw", "com.staroffice.calc",
       "com.staroffice.impress", "com.staroffice.writer", "com.staroffice.chart", "com.staroffice.mail",
       "com.staroffice.writer-global", "com.staroffice.math", "com.staroffice.template">>)
  \o Of({"general.tex"}, <<"org.tug.bib", "org.tug.cls", "org.tug.sty", "org.tug.tex",
       "org.latex-project.latex">>)
  \o Of({"general.video"}, <<"org.matroska.mkv">>)
  \o Of({"general.audio"}, <<"org.matroska.mka">>)

more09A ==
  Of({"general.video"}, <<"com.sgi.movie", "com.apple.m4v", "org.webmproject.webm",
       "com.apple.quicktime-movie">>)
  \o Of({"general.image"}, <<"com.coreldraw.cdr", "com.coreldraw.cdt", "com.coreldraw.cpt", "com.coreldraw.pat",
       "com.microsoft.cur", "com.sun.raster", "com.google.webp">>)
  \o Of({"general.audio"}, <<"com.sseyo.koan-audio">>)
  \o Of({"general.source-code"}, <<"io.qt.moc">>)
  \o Of({"general.font"}, <<"com.ghostscript.font", "org.x.pcf-font">>)
  \o Of({"com.microsoft.advanced-systems-format", "general.zip-archive"}, <<"com.microsoft.windows-media-wmd">>)

more09B ==
  Of({"com.microsoft.advanced-systems-format", "general.zip-archive"}, <<"com.microsoft.windows-media-wmz">>)
  \o Of({"general.executable"}, <<"com.microsoft.windows-installer">>)
  \o Of({"general.composite-object"}, <<"com.microsoft.publisher.pub">>)
  \o Of({"general.xml", "general.media"}, <<"com.microsoft.windows-media-playlist">>)
  \o Of({"general.database"}, <<"com.microsoft.access.mdb">>)
  \o Of({"general.composite-object"}, <<"com.3dsystems.stereolithography">>)
  \o Of({"general.media"}, <<"com.apple.media.playlist">>)
  \o Of({"general.composite-object"}, <<"com.abisource.word", "com.adobe.framemaker", "com.wolfram.cdf",
       "de.cinderella.cdy">>)
  \o Of({"general.video"}, <<"com.adobe.dcr", "com.adobe.dir", "com.adobe.dxr">>)
  \o Of({"general.xml"}, <<"org.gnumeric.spreadsheet">>)
  \o Of({"general.composite-object"}, <<"org.hdfgroup.hdf">>)

more10A ==
  Of({"general.archive"}, <<"com.apple.binhex-archive">>)
  \o Of({"general.archive", "general.executable"}, <<"com.microsoft.hta">>)
  \o Of({"general.text"}, <<"com.microsoft.internet.ins", "com.microsoft.internet.isp", "org.troff">>)
  \o Of({"general.composite-object"}, <<"com.adobe.framemaker.mif", "io.sourceforge.freemind">>)
  \o Of({"general.audio"}, <<"com.yamaha.smaf">>)
  \o Of({"general.text"}, <<"com.wolfram.mathematica.notebook">>)
  \o Of({"general.audio"}, <<"org.xiph.ogg">>)
  \o Of({"general.plain-text"}, <<"com.netscape.proxy-autoconfig">>)
  \o Of({"general.archive"}, <<"com.rsa.pkcs-12">>)
  \o Of({"general.object"}, <<"org.openpgp.signature">>)
  \o Of({"general.text"}, <<"com.apple.quicktime-link">>)
  \o Of({"general.archive"}, <<"com.rarlab.rar-archive", "org.7-zip.7-zip-archive">>)

more10B ==
  Of({"general.text"}, <<"com.red-bean.sgf">>)
  \o Of({"general.archive"}, <<"com.stuffit.sit-archive">>)
  \o Of({"general.video"}, <<"com.adobe.futuresplash", "com.adobe.flash">>)
  \o Of({"general.source-code"}, <<"org.gnu.texinfo">>)
  \o Of({"general.text"}, <<"org.bittorrent.torrent">>)
  \o Of({"general.archive"}, <<"com.idsoftware.doom", "com.apple.webarchive", "com.android.webarchive">>)
  \o Of({"general.image"}, <<"org.gimp.xcf">>)
  \o Of({"general.composite-object"}, <<"com.edrawsoft.edrawmax", "com.edrawsoft.edrawmind", "net.cnki.caj">>)
  \o Of({"general.database"}, <<"com.dbase.dbf">>)
  \o Of({"general.composite-object"}, <<"com.autodesk.dwg", "com.autodesk.dxf">>)

more11A ==
  Of({"general.composite-object"}, <<"com.autodesk.dws", "com.autodesk.dwt", "com.autodesk.dwf",
       "com.autodesk.dwfx", "com.autodesk.shp", "com.autodesk.shx", "com.autodesk.slide-library">>)
  \o Of({"general.text"}, <<"com.autodesk.line">>)
  \o Of({"general.composite-object"}, <<"com.autodesk.plotter", "com.hp.graphics-language",
       "com.microsoft.metafile">>)
  \o Of({"general.text"}, <<"com.spatial.acis.sat">>)
  \o Of({"general.image"}, <<"org.aomedia.avif-image", "com.microsoft.dds", "com.ea.iff-ilbm">>)
  \o Of({"general.raw-image"}, <<"com.canon.cr2-raw-image">>)

more11B ==
  Of({"general.raw-image"}, <<"com.canon.cr3-raw-image", "com.canon.crw-raw-image", "com.adobe.dng-raw-image",
       "com.sony.arw-raw-image", "com.nikon.nef-raw-image">>)
  \o Of({"general.composite-object"}, <<"com.mindjet.mindmanager.mmap">>)
  \o Of({"general.message"}, <<"com.microsoft.email", "com.microsoft.message">>)
  \o Of({"general.archive"}, <<"com.microsoft.pst", "com.kingsoft.office">>)
  \o Of({"com.kingsoft.office", "general.composite-object"}, <<"com.kingsoft.office.writer.wps",
       "com.kingsoft.office.writer.wpt", "com.kingsoft.office.presentation.dps",
       "com.kingsoft.office.presentation.template", "com.kingsoft.office.spreadsheets.et",
       "com.kingsoft.office.spreadsheets.template">>)

more12A ==
  Of({"general.text"}, <<"com.microsoft.ini">>)
  \o Of({"general.script"}, <<"general.json", "general.yaml">>)
  \o Of({"general.text"}, <<"general.log">>)
  \o Of({"general.object"}, <<"general.uri">>)
  \o Of({"general.uri"}, <<"general.file-uri">>)
  \o Of({"general.plain-text"}, <<"general.text-lst">>)
  \o Of({"general.archive"}, <<"com.android.apk">>)
  \o Of({"com.adobe.postscript-font"}, <<"com.adobe.postscript-pfb-font", "com.adobe.postscript-pfa-font">>)
  \o Of({"general.archive"}, <<"general.bz-archive">>)
  \o Of({"general.bz-archive"}, <<"general.tar-bzip-archive">>)
  \o Of({"general.bz2-archive"}, <<"general.tar-bzip2-archive">>)
  \o Of({"general.archive"}, <<"org.tukaani.xz-archive">>)
  \o Of({"org.tukaani.xz-archive"}, <<"org.tukaani.tar-xz-archive">>)
  \o Of({"general.archive"}, <<"general.xar-archive">>)

more12B ==
  Of({"general.archive"}, <<"com.microsoft.cab-archive", "redhat.rpm-archive", "org.godotengine.tpz-archive",
       "general.lza-archive", "general.arj-archive", "com.winzip.zipx", "general.lzma-archive",
       "general.lzma86-archive", "org.mozilla.xpinstall">>)
  \o Of({"general.disk-image"}, <<"general.hfs-disk-image", "general.img-disk-image",
       "com.ezbsystems.zipped-iso", "com.microsoft.wim", "com.microsoft.swm">>)
  \o Of({"com.kingsoft.office", "general.composite-object"}, <<"com.kingsoft.office.spreadsheets.etx",
       "com.kingsoft.office.spreadsheets.ettx">>)

more13A ==
  Of({"general.composite-object"}, <<"com.microsoft.excel.dif">>)
  \o Of({"openharmony.package"}, <<"openharmony.app">>)
  \o Of({"general.text"}, <<"com.huawei.hmos.settings.wifi", "general.tel">>)
  \o Of({"general.script"}, <<"general.ets", "general.json5">>)
  \o Of({"general.audio"}, <<"com.monkeysaudio.ape-audio", "org.xiph.opus-audio">>)
  \o Of({"general.text"}, <<"general.conf">>)
  \o Of({"general.script"}, <<"com.microsoft.dos-batch", "com.microsoft.vbscript">>)
  \o Of({"general.text"}, <<"general.ion">>)
  \o Of({"general.database"}, <<"com.microsoft.registry">>)
  \o Of({"general.object"}, <<"com.microsoft.catalog">>)
  \o Of({"general.script"}, <<"com.microsoft.powershell-script">>)
  \o Of({"general.font"}, <<"org.w3.woff">>)

more13B ==
  Of({"general.database"}, <<"org.sqlite.database">>)
  \o Of({"general.object"}, <<"com.microsoft.sys">>)
  \o Of({"general.text"}, <<"com.microsoft.inf">>)
  \o Of({"general.database"}, <<"com.microsoft.pdb">>)
  \o Of({"general.object"}, <<"com.microsoft.tlb">>)
  \o Of({"general.xml"}, <<"com.microsoft.sccd">>)
  \o Of({"general.video"}, <<"com.adobe.f4v", "general.mp2t", "com.youtube.video", "com.cisco.webex-video",
       "general.mpeg-2", "general.mpeg-1", "com.real.realmedia-vbr", "com.real.realvideo", "general.divx-video",
       "org.csiro.annodex">>)

more14A ==
  Of({"general.video"}, <<"general.ogv", "com.microsoft.lsf-video", "general.h264-video">>)
  \o Of({"general.image"}, <<"general.jpeg-2000">>)
  \o Of({"general.raw-image"}, <<"com.fujifilm.raf-raw-image", "com.nikon.nrw-raw-image",
       "com.panasonic.rw2-raw-image", "com.pentax.pef-raw-image", "com.sumsung.srw-raw-image",
       "com.epson.erf-raw-image", "com.olympus.orf-raw-image">>)

more14B ==
  Of({"general.image"}, <<"general.ief-image", "com.aol.art-image">>)
  \o Of({"general.object"}, <<"general.content-form">>)
  \o Of({"general.audio"}, <<"com.apple.m4p-audio", "general.ac3-audio">>)
  \o Of({"openharmony.package"}, <<"openharmony.hsp", "openharmony.har">>)
  \o Of({"general.archive"}, <<"openharmony.gopaint", "openharmony.gobrush", "openharmony.gobrushes",
       "openharmony.gocolor">>)

=============================================================================
